---- MODULE Spec2Model ----
(***************************************************************************)
(* Execution lifecycle of flyteadmin: the ExecutionManager (workflow       *)
(* executions) and the NodeExecutionManager (node executions), the         *)
(* repository rows they keep, the content store, the metrics and the       *)
(* notifications they publish.                                             *)
(*                                                                         *)
(* Spec       : every handler runs to completion before the next starts.   *)
(* SpecCreate : creation and relaunch, with every failure of the request.  *)
(* SpecNode   : workflow executions and their node executions.             *)
(* SpecNotify : the notification lists and the messages published.         *)
(* SpecRead   : termination and the reads, also on executions stored with  *)
(*              inline inputs.                                             *)
(* SpecConc   : CreateWorkflowEvent is served by parallel request tasks;   *)
(*              its repository read and its write are two steps.           *)
(* SpecNodeRefs : node events naming parent task executions and child     *)
(*              workflow executions.                                       *)
(* SpecList   : the list handlers of the three managers and CreateTask.    *)
(* SpecProcessor : the loop of the notification Processor, with the        *)
(*              fairness of a goroutine that keeps running.                *)
(* SpecQueue  : the queue allocator over QueueConfig snapshots.            *)
(* SpecRelaunch : RelaunchExecution of stored executions.                  *)
(* SpecFilter : the constructors of filter expressions.                    *)
(* SpecTerminate : TerminateExecution and CreateWorkflowEvent served by    *)
(*              parallel request tasks.                                    *)
(* SpecMetrics : the goroutines CreateWorkflowEvent starts to emit the     *)
(*              scheduled delay and the duration.                          *)
(* SpecTask   : CreateTask with every identifier and digest.               *)
(***************************************************************************)
EXTENDS Integers, Sequences, FiniteSets, TLC

\* ------------------------------------------------------------------ bounds
\* Rows of the execution event table (accepted workflow execution events).
MaxEvents == 3
\* Rows of the node execution event table (accepted node execution events).
MaxNodeEvents == 2
\* Failed dispatches to the workflow executor (the PropellerFailures counter).
MaxFailures == 1
\* Node events naming a workflow execution that does not exist.
MaxMissing == 1
\* Rows of the task table.
MaxTasks == 2
\* Messages the subscription delivers to the notification Processor.
MaxMessages == 2
\* Calls of StopProcessing that find the channel closed (the StopError counter).
MaxStops == 1
\* Workflow-scoped rules of a QueueConfig snapshot.
MaxRules == 2
\* Tasks of a compiled workflow.
MaxWorkflowTasks == 2

\* ------------------------------------------------------------- identities
\* Execution names inside one project and domain: the (project, domain, name)
\* triples the requests can name.
ExecIds == {"e1", "e2"}
NodeIds == {"n1"}
RequestIds == {"r1", "r2"}
\* Request tasks serving calls in parallel (SpecConc).
Procs == {"p1", "p2"}

NoExecution == [phase |-> "-"]
NoNodeExecution == [phase |-> "-"]
NoCall == [id |-> "-"]
NoSource == "-"
NoTask == "-"
NoChild == "-"
NoCause == "-"
NoDetail == [none |-> TRUE]
NoMessage == [kind |-> "-"]

\* The Processor before StartProcessing has received anything: where
\* StartProcessing stands (at the head of its loop), the message in hand, the
\* messages received with the calls made for each (SendEmail and Done),
\* whether the subscription's channel is closed and the error of the
\* subscription, what StartProcessing returned, and the
\* processorSystemMetrics.
NewProcessor ==
  [pc |-> "range", current |-> NoMessage, handled |-> << >>,
   closed |-> FALSE, err |-> "nil", returned |-> "-",
   MessageTotal |-> 0, MessageDoneError |-> 0, MessageDecodingError |-> 0,
   MessageDataError |-> 0, MessageProcessorError |-> 0, MessageSuccess |-> 0,
   ChannelClosedError |-> 0, StopError |-> 0]

\* The stopwatch maps: the delays of scheduled executions and the durations
\* of workflow executions.
MetricKinds == {"ScheduledExecutionDelays", "WorkflowExecutionDurations"}

\* The goroutines that can be emitting user metrics at the same time.
Goroutines == {"g1", "g2"}
NoGoroutine == [pc |-> "-"]

\* executionUserMetrics of a new ExecutionManager, for the one project and
\* domain of the modelled executions: the goroutines started and not yet
\* run, the goroutines that run, the domain map each stopwatch map holds for
\* the project (0: none, else an index of domainMaps), the domain maps made
\* so far ("empty" or holding the "watch" of the domain), whether the scope
\* has the stopwatch registered, and the observations recorded and given up.
NewUserMetrics ==
  [pending |-> [kind \in MetricKinds |-> 0],
   goroutines |-> [g \in Goroutines |-> NoGoroutine],
   projects |-> [kind \in MetricKinds |-> 0],
   domainMaps |-> << >>,
   registered |-> [kind \in MetricKinds |-> FALSE],
   observed |-> [kind \in MetricKinds |-> 0],
   dropped |-> [kind \in MetricKinds |-> 0],
   returned |-> [kind \in MetricKinds |-> 0],
   faults |-> 0]

\* Task executions the repository holds; "t2" is named by events but missing.
TaskExecutions == {"t1"}
TaskRefs == {NoTask, "t1", "t2"}

\* -------------------------------------------------------------- phases
\* The core.WorkflowExecution_Phase values the engine reports in the modelled runs.
EventPhases == {"QUEUED", "RUNNING", "SUCCEEDED", "FAILED"}

\* core.NodeExecution_Phase values reported in the modelled runs.
NodeEventPhases == {"RUNNING", "SUCCEEDED", "FAILED"}

\* common.IsExecutionTerminal
IsExecutionTerminal(phase) ==
  phase \in {"SUCCEEDED", "FAILED", "ABORTED", "TIMED_OUT"}

\* common.IsNodeExecutionTerminal
IsNodeExecutionTerminal(phase) ==
  phase \in {"SUCCEEDED", "FAILED", "ABORTED", "TIMED_OUT", "SKIPPED"}

\* ---------------------------------------------------------- notifications
\* The notification list a request may carry, and the one of the launch plan.
RequestNotifications ==
  << [phases |-> {"SUCCEEDED", "FAILED"}, type |-> "slack", recipients |-> "a@x.com"] >>

LaunchPlanNotifications ==
  << [phases |-> {"FAILED"}, type |-> "email", recipients |-> "lp@x.com"] >>

\* A request's list with two channels; the second entry also names RUNNING.
PagerAndEmailNotifications ==
  << [phases |-> {"SUCCEEDED"}, type |-> "pagerduty", recipients |-> "p@x.com"],
     [phases |-> {"SUCCEEDED", "FAILED", "RUNNING"}, type |-> "email",
      recipients |-> "a@x.com"] >>

\* The list of a launch plan stored with an entry that carries none of the
\* email, pager duty and slack settings.
UntypedNotifications ==
  << [phases |-> {"SUCCEEDED", "FAILED"}, type |-> "slack", recipients |-> "s@x.com"],
     [phases |-> {"SUCCEEDED"}, type |-> "-", recipients |-> "-"],
     [phases |-> {"SUCCEEDED", "FAILED"}, type |-> "email", recipients |-> "lp@x.com"] >>

\* The launch plans the requests name: "lp" has notifications, "lpBare" has no
\* entity metadata, "lpUntyped" holds the entry without a channel.
LaunchPlans == {"lp", "lpBare", "lpUntyped"}

\* launchPlan.Spec.EntityMetadata.GetNotifications(), nil without metadata.
LaunchPlanNotificationsOf(launchPlan) ==
  IF launchPlan = "lp" THEN LaunchPlanNotifications
  ELSE IF launchPlan = "lpUntyped" THEN UntypedNotifications
  ELSE << >>

\* The execution specs of the modelled requests: the notifications of the
\* request, its disable-all flag and the launch plan it names.
RequestSpecs ==
  { [notifications |-> n, disableAll |-> d, launchPlan |-> "lp"] :
      n \in {<< >>, RequestNotifications}, d \in BOOLEAN }

\* The specs of the requests of SpecNotify: a request with its own list, with
\* and without disable-all, and requests without a list, for each launch plan
\* and with disable-all.
NotifySpecs ==
  { [notifications |-> PagerAndEmailNotifications, disableAll |-> d,
     launchPlan |-> "lp"] : d \in BOOLEAN }
  \cup { [notifications |-> << >>, disableAll |-> FALSE, launchPlan |-> lp] :
           lp \in LaunchPlans }
  \cup { [notifications |-> << >>, disableAll |-> TRUE, launchPlan |-> "lp"] }

\* ------------------------------------------------------------------ state
VARIABLES
  executions,           \* ExecutionRepo: id -> execution model, or NoExecution
  executionEvents,      \* ExecutionRepo: id -> its execution event rows, in order
  nodeExecutions,       \* NodeExecutionRepo: <<id, node>> -> model
  nodeExecutionEvents,  \* NodeExecutionRepo: <<id, node>> -> its event rows
  storage,              \* storageClient: the references written
  dispatched,           \* workflowExecutor: executions handed to the engine
  aborted,              \* workflowExecutor: executions it was made to abort
  systemMetrics,        \* executionSystemMetrics
  metrics,              \* nodeExecutionMetrics
  published,            \* notificationClient: messages published, in order
  tasks,                \* TaskRepo: the task rows, in the order of creation
  processor,            \* the notification Processor and its subscription
  userMetrics,          \* executionUserMetrics and the goroutines that emit them
  resp,                 \* what the last served call returned
  inflight              \* SpecConc: per request task, the call it is serving

vars ==
  << executions, executionEvents, nodeExecutions, nodeExecutionEvents, storage,
     dispatched, aborted, systemMetrics, metrics, published, tasks, processor,
     userMetrics, resp, inflight >>

NodeKeys == ExecIds \X NodeIds

Init ==
  /\ executions = [id \in ExecIds |-> NoExecution]
  /\ executionEvents = [id \in ExecIds |-> << >>]
  /\ nodeExecutions = [k \in NodeKeys |-> NoNodeExecution]
  /\ nodeExecutionEvents = [k \in NodeKeys |-> << >>]
  /\ storage = {}
  /\ dispatched = {}
  /\ aborted = {}
  /\ systemMetrics =
       [ActiveExecutions |-> 0, ExecutionsCreated |-> 0,
        ExecutionsTerminated |-> 0, ExecutionEventsCreated |-> 0,
        PropellerFailures |-> 0, PublishNotificationError |-> 0,
        UnexpectedDataError |-> 0]
  /\ metrics =
       [ActiveNodeExecutions |-> 0, NodeExecutionsCreated |-> 0,
        NodeExecutionsTerminated |-> 0, NodeExecutionEventsCreated |-> 0,
        MissingWorkflowExecution |-> 0]
  /\ published = << >>
  /\ tasks = << >>
  /\ processor = NewProcessor
  /\ userMetrics = NewUserMetrics
  /\ resp = [op |-> "-", id |-> "-", node |-> "-", phase |-> "-",
             curPhase |-> "-", code |-> "-", detail |-> NoDetail]
  /\ inflight = [p \in Procs |-> NoCall]

\* The answer of a served call.
Response(op, id, node, phase, curPhase, code) ==
  [op |-> op, id |-> id, node |-> node, phase |-> phase,
   curPhase |-> curPhase, code |-> code, detail |-> NoDetail]

\* The answer with what is particular to the call: inputs that decide it and
\* values it returns.
ResponseWith(op, id, node, phase, curPhase, code, detail) ==
  [Response(op, id, node, phase, curPhase, code) EXCEPT !.detail = detail]

\* The rows of a table kept per key.
RECURSIVE Rows(_, _)
Rows(table, keys) ==
  IF keys = {} THEN 0
  ELSE LET k == CHOOSE x \in keys : TRUE
       IN Len(table[k]) + Rows(table, keys \ {k})

Inc(m, field) == [m EXCEPT ![field] = @ + 1]
Dec(m, field) == [m EXCEPT ![field] = @ - 1]

\* ------------------------------------------------- repository (interfaces)
\* ExecutionRepo.Create: the (project, domain, name) key is unique.
RepoCreateExecution(id, model) ==
  IF executions[id] # NoExecution
    THEN [code |-> "AlreadyExists", executions |-> executions]
    ELSE [code |-> "OK", executions |-> [executions EXCEPT ![id] = model]]

\* ExecutionRepo.Update: one transaction stores the model and appends the event.
RepoUpdateExecution(id, event, model) ==
  [executions |-> [executions EXCEPT ![id] = model],
   executionEvents |-> [executionEvents EXCEPT ![id] = Append(@, event)]]

\* transformers.UpdateExecutionModelState: the model takes the event's phase.
UpdateExecutionModelState(executionModel, phase) ==
  [executionModel EXCEPT !.phase = phase]

\* transformers.CreateExecutionEventModel
CreateExecutionEventModel(id, requestId, phase) ==
  [id |-> id, requestId |-> requestId, phase |-> phase]

\* ------------------------------------------------ ExecutionManager: create
\* Mutant: the execution is recorded as running at creation.
InitialPhaseRunning == "RUNNING"

\* The phase CreateExecutionModel is given.
InitialPhase == "UNDEFINED"

\* Where a creation request can fail before the model is inserted.
CreateFailures == {"none", "validate", "offloadUserInputs", "execute"}

\* Mutant: disable-all is looked at before the notifications of the request.
ResolveNotificationsDisableFirst(spec) ==
  IF spec.disableAll THEN << >>
  ELSE IF Len(spec.notifications) > 0 THEN spec.notifications
  ELSE LaunchPlanNotificationsOf(spec.launchPlan)

\* The notification settings of the new execution.
ResolveNotifications(spec) ==
  IF Len(spec.notifications) > 0 THEN spec.notifications
  ELSE IF spec.disableAll THEN << >>
  ELSE LaunchPlanNotificationsOf(spec.launchPlan)

\* offloadInputs, called for shared.Inputs and then for shared.UserInputs:
\* the references written when the request fails at failAt (or not at all).
OffloadedInputs(id, failAt) ==
  IF failAt = "validate" THEN {}
  ELSE IF failAt = "offloadUserInputs" THEN {<<id, "inputs">>}
  ELSE {<<id, "inputs">>, <<id, "user-inputs">>}

\* launchExecutionAndPrepareModel: validation and lookups, offloading of the
\* inputs, dispatch to the workflow executor, then the model to insert.
launchExecutionAndPrepareModel(id, spec, mode, failAt) ==
  LET written == OffloadedInputs(id, failAt) IN
  IF failAt = "validate" THEN
    [code |-> "InvalidArgument", written |-> written, executed |-> FALSE,
     propellerFailure |-> FALSE, model |-> NoExecution]
  ELSE IF failAt = "offloadUserInputs" THEN
    [code |-> "StorageError", written |-> written, executed |-> FALSE,
     propellerFailure |-> FALSE, model |-> NoExecution]
  ELSE IF failAt = "execute" THEN
    [code |-> "ExecutorError", written |-> written, executed |-> FALSE,
     propellerFailure |-> TRUE, model |-> NoExecution]
  ELSE
    [code |-> "OK", written |-> written, executed |-> TRUE,
     propellerFailure |-> FALSE,
     model |-> [phase |-> InitialPhase, mode |-> mode, spec |-> spec,
                notifications |-> ResolveNotifications(spec),
                source |-> NoSource, inputsURI |-> "inputs",
                userInputsURI |-> "user-inputs", abortCause |-> NoCause]]

\* Mutant: the error of ExecutionRepo.Create is dropped.
createExecutionModelIgnoringError(id, executionModel, sm) ==
  [code |-> "OK", executions |-> RepoCreateExecution(id, executionModel).executions,
   systemMetrics |-> Inc(Inc(sm, "ActiveExecutions"), "ExecutionsCreated")]

\* createExecutionModel: insert the model, then count the execution as active.
createExecutionModel(id, executionModel, sm) ==
  LET created == RepoCreateExecution(id, executionModel) IN
  IF created.code # "OK" THEN
    [code |-> created.code, executions |-> executions, systemMetrics |-> sm]
  ELSE
    [code |-> "OK", executions |-> created.executions,
     systemMetrics |-> Inc(Inc(sm, "ActiveExecutions"), "ExecutionsCreated")]

\* The part CreateExecution and RelaunchExecution share: launch, then insert.
LaunchAndCreate(op, id, spec, mode, source, failAt, detail) ==
  LET launched == launchExecutionAndPrepareModel(id, spec, mode, failAt)
      sm == IF launched.propellerFailure
              THEN Inc(systemMetrics, "PropellerFailures") ELSE systemMetrics
      inserted == createExecutionModel(
                    id, [launched.model EXCEPT !.source = source], sm)
  IN
  /\ failAt = "execute" => systemMetrics.PropellerFailures < MaxFailures
  /\ storage' = storage \cup launched.written
  /\ dispatched' = IF launched.executed THEN dispatched \cup {id} ELSE dispatched
  /\ IF launched.code # "OK"
       THEN /\ executions' = executions
            /\ systemMetrics' = sm
            /\ resp' = ResponseWith(op, id, "-", "-", "-", launched.code, detail)
       ELSE /\ executions' = inserted.executions
            /\ systemMetrics' = inserted.systemMetrics
            /\ resp' = ResponseWith(op, id, "-", "-", "-", inserted.code, detail)
  /\ UNCHANGED << executionEvents, nodeExecutions, nodeExecutionEvents, metrics,
                  published, inflight, aborted, tasks, processor,
                  userMetrics >>

CreateExecution(id, spec, failAt) ==
  LaunchAndCreate("CreateExecution", id, spec, "MANUAL", NoSource, failAt, NoDetail)

\* Where a relaunch can fail: reading the inputs of the source, then as a
\* creation request.
RelaunchFailures == CreateFailures \cup {"readInputs"}

\* A variant that always takes the inputs from the spec of the source.
RelaunchInputsFromSpec(existingExecutionModel) == "spec"

\* Where RelaunchExecution takes the user inputs from: the reference of the
\* source when it has one, its spec otherwise.
RelaunchInputs(existingExecutionModel) ==
  IF existingExecutionModel.userInputsURI # ""
    THEN existingExecutionModel.userInputsURI
    ELSE "spec"

\* RelaunchExecution: the source's spec and user inputs under a new name.
RelaunchExecution(sourceId, name, failAt) ==
  LET existingExecutionModel == executions[sourceId] IN
  IF existingExecutionModel = NoExecution THEN
    /\ resp' = ResponseWith("RelaunchExecution", name, "-", "-", "-", "NotFound",
                            [source |-> sourceId, inputs |-> "-"])
    /\ UNCHANGED << executions, executionEvents, nodeExecutions,
                    nodeExecutionEvents, storage, dispatched, systemMetrics,
                    metrics, published, inflight, aborted, tasks, processor,
                    userMetrics >>
  ELSE IF failAt = "readInputs" THEN
    /\ resp' = ResponseWith("RelaunchExecution", name, "-", "-", "-",
                            IF RelaunchInputs(existingExecutionModel) = "spec"
                              THEN "Internal" ELSE "StorageError",
                            [source |-> sourceId, inputs |-> "-"])
    /\ UNCHANGED << executions, executionEvents, nodeExecutions,
                    nodeExecutionEvents, storage, dispatched, systemMetrics,
                    metrics, published, inflight, aborted, tasks, processor,
                    userMetrics >>
  ELSE
    LaunchAndCreate("RelaunchExecution", name, existingExecutionModel.spec,
                    "RELAUNCH", sourceId, failAt,
                    [source |-> sourceId,
                     inputs |-> RelaunchInputs(existingExecutionModel)])

\* ----------------------------------------- ExecutionManager: notifications
\* The Publish calls that can fail, by the position of the notification.
PublishFailures == SUBSET {1}
\* The same for the lists of up to three entries of SpecNotify.
NotifyPublishFailures == SUBSET {1, 3}

\* Mutant: an entry without a channel is published like an email entry.
NotificationTypesAny == {"email", "pagerduty", "slack", "-"}

\* The channels publishNotifications converts to an email notification.
NotificationTypes == {"email", "pagerduty", "slack"}

RECURSIVE publishFrom(_, _, _, _, _)
\* The loop of publishNotifications from entry i on: the messages handed to
\* the publisher (ok: Publish returned no error), and the error returned.
publishFrom(list, i, id, phase, failing) ==
  IF i > Len(list) THEN [code |-> "OK", msgs |-> << >>, unexpected |-> 0]
  ELSE IF phase \notin list[i].phases
    THEN publishFrom(list, i + 1, id, phase, failing)
  ELSE IF list[i].type \notin NotificationTypes
    THEN [code |-> "Internal", msgs |-> << >>, unexpected |-> 1]
  ELSE
    LET rest == publishFrom(list, i + 1, id, phase, failing)
        email == [id |-> id, phase |-> phase,
                  recipients |-> list[i].recipients, ok |-> i \notin failing]
    IN [rest EXCEPT !.msgs = << email >> \o @]

\* Mutant: pager duty and slack entries are not published.
publishNotificationsEmailOnly(id, phase, execution, failing) ==
  LET NotChat(n) == n.type \notin {"pagerduty", "slack"}
  IN publishFrom(SelectSeq(execution.notifications, NotChat), 1, id, phase, failing)

\* Mutant: the loop ends at the first Publish call that fails.
publishNotificationsStopOnFailure(id, phase, execution, failing) ==
  LET list == execution.notifications
      failed == {i \in 1..Len(list) : i \in failing /\ phase \in list[i].phases}
      last == IF failed = {} THEN Len(list)
              ELSE CHOOSE i \in failed : \A j \in failed : i <= j
  IN publishFrom(SubSeq(list, 1, last), 1, id, phase, failing)

\* Mutant: the entries are walked in an order that depends on the execution.
publishNotificationsUnordered(id, phase, execution, failing) ==
  LET list == execution.notifications
      walked == IF id = "e2" THEN [i \in 1..Len(list) |-> list[Len(list) + 1 - i]]
                ELSE list
  IN publishFrom(walked, 1, id, phase, failing)

publishNotifications(id, phase, execution, failing) ==
  publishFrom(execution.notifications, 1, id, phase, failing)

PublishErrors(msgs) == Cardinality({i \in 1..Len(msgs) : ~msgs[i].ok})

\* ------------------------------------------ ExecutionManager: event intake
\* Mutant: the terminal check is missing.
CheckWorkflowPhaseNoTerminal(wfExecPhase, eventPhase) ==
  IF wfExecPhase = eventPhase THEN "AlreadyExists" ELSE "OK"

\* Mutant: the terminal check comes before the duplicate check.
CheckWorkflowPhaseTerminalFirst(wfExecPhase, eventPhase) ==
  IF IsExecutionTerminal(wfExecPhase) THEN "FailedPrecondition"
  ELSE IF wfExecPhase = eventPhase THEN "AlreadyExists"
  ELSE "OK"

\* Mutant: only SUCCEEDED is taken to be terminal.
CheckWorkflowPhaseSucceededOnly(wfExecPhase, eventPhase) ==
  IF wfExecPhase = eventPhase THEN "AlreadyExists"
  ELSE IF wfExecPhase = "SUCCEEDED" THEN "FailedPrecondition"
  ELSE "OK"

\* The check of the reported phase against the phase read from the repository.
CheckWorkflowPhase(wfExecPhase, eventPhase) ==
  IF wfExecPhase = eventPhase THEN "AlreadyExists"
  ELSE IF IsExecutionTerminal(wfExecPhase) THEN "FailedPrecondition"
  ELSE "OK"

\* The goroutines CreateWorkflowEvent starts after the update: the emitter of
\* the scheduled delay on RUNNING for an execution of mode SCHEDULED, the
\* emitter of the duration on a terminal phase.
StartEmitters(um, mode, phase) ==
  IF phase = "RUNNING" THEN
    IF mode = "SCHEDULED"
      THEN [um EXCEPT !.pending["ScheduledExecutionDelays"] = @ + 1]
      ELSE um
  ELSE IF IsExecutionTerminal(phase)
    THEN [um EXCEPT !.pending["WorkflowExecutionDurations"] = @ + 1]
    ELSE um

\* A variant that counts the termination only after publishNotifications
\* returned without an error.
EventMetricsAfterPublish(sm, phase, pub) ==
  LET b == [sm EXCEPT !.PublishNotificationError = @ + PublishErrors(pub.msgs),
                      !.UnexpectedDataError = @ + pub.unexpected]
  IN IF pub.code # "OK" THEN b
     ELSE IF IsExecutionTerminal(phase) /\ phase # "RUNNING"
       THEN Inc(Inc(Dec(b, "ActiveExecutions"), "ExecutionsTerminated"),
                "ExecutionEventsCreated")
       ELSE Inc(b, "ExecutionEventsCreated")

\* The metrics after an accepted event: the gauge and the terminated counter
\* on a terminal phase, the publish errors, the events-created counter unless
\* publishNotifications returned an error.
EventMetrics(sm, phase, pub) ==
  LET a == IF IsExecutionTerminal(phase) /\ phase # "RUNNING"
             THEN Inc(Dec(sm, "ActiveExecutions"), "ExecutionsTerminated")
             ELSE sm
      b == [a EXCEPT !.PublishNotificationError = @ + PublishErrors(pub.msgs),
                     !.UnexpectedDataError = @ + pub.unexpected]
  IN IF pub.code = "OK" THEN Inc(b, "ExecutionEventsCreated") ELSE b

\* A variant that calls ExecutionRepo.Update before the check of the phase.
RecordWorkflowEventWritingFirst(executionModel, id, phase, requestId, failing) ==
  LET check == CheckWorkflowPhase(executionModel.phase, phase)
      updated == UpdateExecutionModelState(executionModel, phase)
      stored == RepoUpdateExecution(
                  id, CreateExecutionEventModel(id, requestId, phase), updated)
      pub == IF phase # "RUNNING" /\ IsExecutionTerminal(phase) /\ check = "OK"
               THEN publishNotifications(id, phase, updated, failing)
               ELSE [code |-> "OK", msgs |-> << >>, unexpected |-> 0]
  IN
  /\ Rows(executionEvents, ExecIds) < MaxEvents
  /\ executions' = stored.executions
  /\ executionEvents' = stored.executionEvents
  /\ systemMetrics' = IF check = "OK" THEN EventMetrics(systemMetrics, phase, pub)
                      ELSE systemMetrics
  /\ published' = published \o pub.msgs
  /\ userMetrics' = IF check = "OK"
                      THEN StartEmitters(userMetrics, executionModel.mode, phase)
                      ELSE userMetrics
  /\ resp' = Response("CreateWorkflowEvent", id, "-", phase, executionModel.phase,
                      IF check = "OK" THEN pub.code ELSE check)

\* CreateWorkflowEvent after GetExecutionModel returned executionModel.
RecordWorkflowEvent(executionModel, id, phase, requestId, failing) ==
  LET check == CheckWorkflowPhase(executionModel.phase, phase)
      updated == UpdateExecutionModelState(executionModel, phase)
      stored == RepoUpdateExecution(
                  id, CreateExecutionEventModel(id, requestId, phase), updated)
      pub == IF phase # "RUNNING" /\ IsExecutionTerminal(phase)
               THEN publishNotifications(id, phase, updated, failing)
               ELSE [code |-> "OK", msgs |-> << >>, unexpected |-> 0]
  IN
  IF check # "OK" THEN
    /\ resp' = Response("CreateWorkflowEvent", id, "-", phase,
                        executionModel.phase, check)
    /\ UNCHANGED << executions, executionEvents, systemMetrics, published,
                  userMetrics >>
  ELSE
    /\ Rows(executionEvents, ExecIds) < MaxEvents
    /\ executions' = stored.executions
    /\ executionEvents' = stored.executionEvents
    /\ systemMetrics' = EventMetrics(systemMetrics, phase, pub)
    /\ published' = published \o pub.msgs
    /\ userMetrics' = StartEmitters(userMetrics, executionModel.mode, phase)
    /\ resp' = Response("CreateWorkflowEvent", id, "-", phase,
                        executionModel.phase, pub.code)

\* CreateWorkflowEvent, served without interruption.
CreateWorkflowEvent(id, phase, requestId, failing) ==
  /\ IF executions[id] = NoExecution THEN
       /\ resp' = Response("CreateWorkflowEvent", id, "-", phase, "-", "NotFound")
       /\ UNCHANGED << executions, executionEvents, systemMetrics, published,
                       userMetrics >>
     ELSE RecordWorkflowEvent(executions[id], id, phase, requestId, failing)
  /\ UNCHANGED << nodeExecutions, nodeExecutionEvents, storage, dispatched,
                  metrics, inflight, aborted, tasks, processor >>

\* CreateWorkflowEvent served by request task p, first step: the request is
\* validated and GetExecutionModel reads the execution.
BeginWorkflowEvent(p, id, phase, requestId, failing) ==
  /\ inflight[p] = NoCall
  /\ IF executions[id] = NoExecution THEN
       /\ resp' = Response("CreateWorkflowEvent", id, "-", phase, "-", "NotFound")
       /\ inflight' = inflight
     ELSE
       /\ inflight' = [inflight EXCEPT ![p] =
            [id |-> id, phase |-> phase, requestId |-> requestId,
             failing |-> failing, executionModel |-> executions[id]]]
       /\ resp' = resp
  /\ UNCHANGED << executions, executionEvents, nodeExecutions,
                  nodeExecutionEvents, storage, dispatched, systemMetrics,
                  metrics, published, aborted, tasks, processor, userMetrics >>

\* Second step: the phase check on the model read, and ExecutionRepo.Update.
FinishWorkflowEvent(p) ==
  /\ inflight[p] # NoCall
  /\ "phase" \in DOMAIN inflight[p]
  /\ RecordWorkflowEvent(inflight[p].executionModel, inflight[p].id,
                         inflight[p].phase, inflight[p].requestId,
                         inflight[p].failing)
  /\ inflight' = [inflight EXCEPT ![p] = NoCall]
  /\ UNCHANGED << nodeExecutions, nodeExecutionEvents, storage, dispatched,
                  metrics, aborted, tasks, processor >>

\* --------------------------------- ExecutionManager: terminate and reads
\* ExecutionRepo.UpdateExecution: the stored model is replaced.
RepoUpdateExecutionModel(id, model) == [executions EXCEPT ![id] = model]

\* The abort causes of the modelled requests.
Causes == {"c1"}

\* Where TerminateExecution can fail once the execution is found: the abort
\* by the workflow executor, or the update of the repository.
TerminateFailures == {"none", "abort", "update"}

\* Mutant: the abort cause is saved before the executor is asked to abort.
AbortCauseSavedBeforeAbort(failAt) == failAt # "update"

\* The abort cause is saved when the abort and the update succeed.
AbortCauseSaved(failAt) == failAt = "none"

\* TerminateExecution: look the execution up, have the workflow executor abort
\* it, then store the abort cause.
TerminateExecution(id, cause, failAt) ==
  LET executionModel == executions[id]
      code == IF executionModel = NoExecution THEN "NotFound"
              ELSE IF failAt = "abort" THEN "ExecutorError"
              ELSE IF failAt = "update" THEN "RepositoryError"
              ELSE "OK"
  IN
  /\ aborted' = IF code \in {"OK", "RepositoryError"} THEN aborted \cup {id}
                ELSE aborted
  /\ executions' =
       IF executionModel # NoExecution /\ AbortCauseSaved(failAt)
         THEN RepoUpdateExecutionModel(
                id, [executionModel EXCEPT !.abortCause = cause])
         ELSE executions
  /\ resp' = Response("TerminateExecution", id, "-", "-", "-", code)
  /\ UNCHANGED << executionEvents, nodeExecutions, nodeExecutionEvents, storage,
                  dispatched, systemMetrics, metrics, published, inflight,
                  tasks, processor, userMetrics >>

\* TerminateExecution served by a request task beside others, first step:
\* ExecutionRepo().Get reads the model.
BeginTerminateExecution(p, id, cause) ==
  /\ inflight[p] = NoCall
  /\ IF executions[id] = NoExecution THEN
       /\ resp' = Response("TerminateExecution", id, "-", "-", "-", "NotFound")
       /\ inflight' = inflight
     ELSE
       /\ inflight' = [inflight EXCEPT ![p] =
            [id |-> id, cause |-> cause, executionModel |-> executions[id]]]
       /\ resp' = resp
  /\ UNCHANGED << executions, executionEvents, nodeExecutions,
                  nodeExecutionEvents, storage, dispatched, systemMetrics,
                  metrics, published, aborted, tasks, processor, userMetrics >>

\* Second step: the workflow executor aborts, the abort cause is set on the
\* model read in the first step and UpdateExecution stores that model.
FinishTerminateExecution(p, failAt) ==
  /\ inflight[p] # NoCall
  /\ "cause" \in DOMAIN inflight[p]
  /\ LET call == inflight[p]
         code == IF failAt = "abort" THEN "ExecutorError"
                 ELSE IF failAt = "update" THEN "RepositoryError"
                 ELSE "OK"
     IN
     /\ aborted' = IF failAt = "abort" THEN aborted ELSE aborted \cup {call.id}
     /\ executions' =
          IF AbortCauseSaved(failAt)
            THEN RepoUpdateExecutionModel(
                   call.id, [call.executionModel EXCEPT !.abortCause = call.cause])
            ELSE executions
     /\ resp' = Response("TerminateExecution", call.id, "-", "-", "-", code)
  /\ inflight' = [inflight EXCEPT ![p] = NoCall]
  /\ UNCHANGED << executionEvents, nodeExecutions, nodeExecutionEvents, storage,
                  dispatched, systemMetrics, metrics, published, tasks,
                  processor, userMetrics >>

\* GetExecution: the model, the identifier of its source execution, and the
\* inputs read from the references the model holds.
GetExecution(id) ==
  /\ resp' = Response("GetExecution", id, "-", "-", "-",
                      IF executions[id] = NoExecution THEN "NotFound" ELSE "OK")
  /\ UNCHANGED << executions, executionEvents, nodeExecutions,
                  nodeExecutionEvents, storage, dispatched, aborted, tasks, processor,
                  systemMetrics, metrics, published, inflight, userMetrics >>

\* Where GetExecutionData can fail for an execution stored without a
\* reference to its inputs: offloadInputs, or the update of the repository.
GetDataFailures == {"none", "offload", "update"}

\* GetExecutionData: signed URLs of the outputs and of the inputs. The inputs
\* of an execution stored without a reference are offloaded first and the
\* reference is stored with the model.
GetExecutionData(id, failAt) ==
  LET executionModel == executions[id]
      inline == executionModel # NoExecution /\ executionModel.inputsURI = ""
      code == IF executionModel = NoExecution THEN "NotFound"
              ELSE IF inline /\ failAt = "offload" THEN "StorageError"
              ELSE IF inline /\ failAt = "update" THEN "RepositoryError"
              ELSE "OK"
  IN
  /\ storage' = IF inline /\ failAt # "offload"
                  THEN storage \cup OffloadedInputs(id, "offloadUserInputs")
                  ELSE storage
  /\ executions' =
       IF inline /\ code = "OK"
         THEN RepoUpdateExecutionModel(
                id, [executionModel EXCEPT !.inputsURI = "inputs"])
         ELSE executions
  /\ resp' = Response("GetExecutionData", id, "-", "-", "-", code)
  /\ UNCHANGED << executionEvents, nodeExecutions, nodeExecutionEvents,
                  dispatched, aborted, tasks, processor, systemMetrics, metrics, published,
                  inflight, userMetrics >>

\* ------------------------------------------------------------------ lists
\* The pagination tokens of the modelled list requests; "x" is no offset.
Tokens == {"", "1", "x"}

\* The limits of the modelled list requests.
Limits == {1, 2}

\* The offsets a token of the modelled requests and answers can stand for.
Offsets == 0..4

\* validation.ValidateToken: the empty token is offset 0, a decimal token is
\* its value, anything else is an error (-1 here).
ValidateToken(token) ==
  IF token = "" THEN 0
  ELSE IF \E n \in Offsets : ToString(n) = token
    THEN CHOOSE n \in Offsets : ToString(n) = token
    ELSE -1

\* The List calls of the repositories: limit rows from the offset on.
RepoList(rows, limit, offset) ==
  LET last == IF offset + limit < Len(rows) THEN offset + limit ELSE Len(rows)
  IN [i \in 1..(IF last > offset THEN last - offset ELSE 0) |-> rows[offset + i]]

\* Mutant: a token is returned with every page that is not empty.
NextTokenWhenNotEmpty(results, limit, offset) ==
  IF Len(results) > 0 THEN ToString(offset + Len(results)) ELSE ""

\* The token of the answer: strconv.Itoa(offset + len) when the page is full.
NextToken(results, limit, offset) ==
  IF Len(results) = limit THEN ToString(offset + Len(results)) ELSE ""

\* What the list handlers share: the token is validated, the repository is
\* queried with limit and offset, and the answer carries the next token.
ListResponse(op, id, task, rows, limit, requestToken) ==
  LET offset == ValidateToken(requestToken)
      results == RepoList(rows, limit, offset)
  IN IF offset < 0 THEN
       ResponseWith(op, id, "-", "-", "-", "InvalidArgument",
                    [limit |-> limit, offset |-> offset, task |-> task,
                     results |-> << >>, token |-> ""])
     ELSE
       ResponseWith(op, id, "-", "-", "-", "OK",
                    [limit |-> limit, offset |-> offset, task |-> task,
                     results |-> results,
                     token |-> NextToken(results, limit, offset)])

\* The order in which the repository returns executions, and node executions.
ExecutionOrder == << "e1", "e2" >>
NodeOrder == << <<"e1", "n1">>, <<"e2", "n1">> >>

\* ExecutionRepo.List for the project and domain of the request.
ExecutionRows ==
  LET Stored(id) == executions[id] # NoExecution
  IN SelectSeq(ExecutionOrder, Stored)

\* ListExecutions: filters, sort parameter and token are validated, then the
\* repository is queried.
ListExecutions(limit, token) ==
  /\ resp' = ListResponse("ListExecutions", "-", NoTask, ExecutionRows, limit, token)
  /\ UNCHANGED << executions, executionEvents, nodeExecutions,
                  nodeExecutionEvents, storage, dispatched, aborted, tasks, processor,
                  systemMetrics, metrics, published, inflight, userMetrics >>

\* Mutant: the map filter lets every node execution through.
IsRootNodeAny(nodeExecutionModel) == TRUE

\* The isParent map filter: the parent task execution id is null.
IsRootNode(nodeExecutionModel) == nodeExecutionModel.parentTaskExecutionID = NoTask

\* NodeExecutionRepo.List with the identifier filters of a workflow execution,
\* the filter on the parent task execution (NoTask: no such filter), and the
\* map filters.
NodeRows(id, parentTask, addIsParentFilter) ==
  LET Listed(k) ==
        /\ k[1] = id
        /\ nodeExecutions[k] # NoNodeExecution
        /\ parentTask # NoTask => nodeExecutions[k].parentTaskExecutionID = parentTask
        /\ addIsParentFilter => IsRootNode(nodeExecutions[k])
  IN SelectSeq(NodeOrder, Listed)

\* ListNodeExecutions: the node executions of a workflow execution, with the
\* isParent filter.
ListNodeExecutions(id, limit, token) ==
  /\ resp' = ListResponse("ListNodeExecutions", id, NoTask,
                          NodeRows(id, NoTask, TRUE), limit, token)
  /\ UNCHANGED << executions, executionEvents, nodeExecutions,
                  nodeExecutionEvents, storage, dispatched, aborted, tasks, processor,
                  systemMetrics, metrics, published, inflight, userMetrics >>

\* ListNodeExecutionsForTask: the parent task execution is looked up, then the
\* node executions with that parent are listed, without the isParent filter.
ListNodeExecutionsForTask(id, task, limit, token) ==
  /\ resp' =
       IF task \notin TaskExecutions
         THEN ResponseWith("ListNodeExecutionsForTask", id, "-", "-", "-", "NotFound",
                           [limit |-> limit, offset |-> 0, task |-> task,
                            results |-> << >>, token |-> ""])
         ELSE ListResponse("ListNodeExecutionsForTask", id, task,
                           NodeRows(id, task, FALSE), limit, token)
  /\ UNCHANGED << executions, executionEvents, nodeExecutions,
                  nodeExecutionEvents, storage, dispatched, aborted, tasks, processor,
                  systemMetrics, metrics, published, inflight, userMetrics >>

\* ------------------------------------------------------------- TaskManager
TaskNames == {"a", "b"}
TaskVersions == {"v1", "v2"}
\* The digests of the compiled tasks of the modelled requests.
TaskDigests == {"d1", "d2"}

\* Where CreateTask can fail before it looks for an existing task.
CreateTaskFailures == {"none", "validate", "compile"}

\* util.GetTaskModel: the rows stored under the identifier.
TaskModels(name, version) ==
  {i \in 1..Len(tasks) : tasks[i].name = name /\ tasks[i].version = version}

\* A variant that stores the task of a request over a stored task of another
\* digest.
CreateTaskReplacing(name, version, digest, failAt) ==
  LET existing == TaskModels(name, version)
      code == IF failAt = "validate" THEN "InvalidArgument"
              ELSE IF failAt = "compile" THEN "CompilerError"
              ELSE IF \E i \in existing : tasks[i].digest = digest
                THEN "AlreadyExists"
              ELSE "OK"
      model == [name |-> name, version |-> version, digest |-> digest]
  IN
  /\ (code = "OK" /\ existing = {}) => Len(tasks) < MaxTasks
  /\ tasks' = IF code # "OK" THEN tasks
              ELSE IF existing = {} THEN Append(tasks, model)
              ELSE [i \in 1..Len(tasks) |->
                      IF i \in existing THEN model ELSE tasks[i]]
  /\ resp' = ResponseWith("CreateTask", name, "-", "-", "-", code,
                          [version |-> version, digest |-> digest])
  /\ UNCHANGED << executions, executionEvents, nodeExecutions,
                  nodeExecutionEvents, storage, dispatched, aborted, processor,
                  systemMetrics, metrics, published, inflight, userMetrics >>

\* CreateTask: validate, compile, compare the digest with the one of a task
\* stored under the same identifier, then insert.
CreateTask(name, version, digest, failAt) ==
  LET existing == TaskModels(name, version)
      code == IF failAt = "validate" THEN "InvalidArgument"
              ELSE IF failAt = "compile" THEN "CompilerError"
              ELSE IF existing # {} THEN
                IF \E i \in existing : tasks[i].digest = digest
                  THEN "AlreadyExists" ELSE "InvalidArgument"
              ELSE "OK"
  IN
  /\ code = "OK" => Len(tasks) < MaxTasks
  /\ tasks' = IF code = "OK"
                THEN Append(tasks, [name |-> name, version |-> version,
                                    digest |-> digest])
                ELSE tasks
  /\ resp' = ResponseWith("CreateTask", name, "-", "-", "-", code,
                          [version |-> version, digest |-> digest])
  /\ UNCHANGED << executions, executionEvents, nodeExecutions,
                  nodeExecutionEvents, storage, dispatched, aborted, processor,
                  systemMetrics, metrics, published, inflight, userMetrics >>

\* TaskRepo.List for the project and domain of the request.
TaskRows == [i \in 1..Len(tasks) |-> << tasks[i].name, tasks[i].version >>]

\* TaskRepo.ListTaskIdentifiers: one row for each task name, whatever the
\* number of its versions.
TaskIdentifierRows ==
  LET first == {i \in 1..Len(tasks) : \A j \in 1..(i - 1) : tasks[j].name # tasks[i].name}
  IN [k \in 1..Cardinality(first) |->
        tasks[CHOOSE i \in first : Cardinality({j \in first : j <= i}) = k].name]

ListTasks(limit, token) ==
  /\ resp' = ListResponse("ListTasks", "-", NoTask, TaskRows, limit, token)
  /\ UNCHANGED << executions, executionEvents, nodeExecutions,
                  nodeExecutionEvents, storage, dispatched, aborted, tasks, processor,
                  systemMetrics, metrics, published, inflight, userMetrics >>

ListUniqueTaskIdentifiers(limit, token) ==
  /\ resp' = ListResponse("ListUniqueTaskIdentifiers", "-", NoTask,
                          TaskIdentifierRows, limit, token)
  /\ UNCHANGED << executions, executionEvents, nodeExecutions,
                  nodeExecutionEvents, storage, dispatched, aborted, tasks, processor,
                  systemMetrics, metrics, published, inflight, userMetrics >>

\* ------------------------------------------------- NodeExecutionManager
\* An execution identifier that fails ValidateWorkflowExecutionIdentifier.
InvalidExecutionId == ""

\* The child executions the events name: none, a name of the modelled
\* executions, or an invalid identifier.
ChildRefs == {NoChild, InvalidExecutionId} \cup ExecIds

\* util.GetExecutionModel: no execution is stored under an invalid identifier.
GetExecutionModel(id) == IF id \in ExecIds THEN executions[id] ELSE NoExecution

\* transformers.CreateNodeExecutionEventModel
CreateNodeExecutionEventModel(id, node, requestId, phase) ==
  [id |-> id, node |-> node, requestId |-> requestId, phase |-> phase]

\* transformers.UpdateNodeExecutionModel: the model takes the event's phase.
UpdateNodeExecutionModel(nodeExecutionModel, phase) ==
  [nodeExecutionModel EXCEPT !.phase = phase]

\* Mutant: the terminal check is missing.
CheckNodePhaseNoTerminal(nodeExecPhase, eventPhase) ==
  IF nodeExecPhase = eventPhase THEN "AlreadyExists" ELSE "OK"

\* Mutant: a terminal node execution answers every event as a duplicate.
CheckNodePhaseTerminalAsDuplicate(nodeExecPhase, eventPhase) ==
  IF nodeExecPhase = eventPhase \/ IsNodeExecutionTerminal(nodeExecPhase)
    THEN "AlreadyExists"
    ELSE "OK"

\* The check of the reported phase against the phase of the stored node
\* execution: updateFailed with AlreadyExists, alreadyInTerminalStatus, or go on.
CheckNodePhase(nodeExecPhase, eventPhase) ==
  IF nodeExecPhase = eventPhase THEN "AlreadyExists"
  ELSE IF IsNodeExecutionTerminal(nodeExecPhase) THEN "alreadyInTerminalStatus"
  ELSE "OK"

\* createNodeExecutionWithEvent: the parent task execution must exist; the
\* node execution and its first event are inserted together.
createNodeExecutionWithEvent(id, node, phase, requestId, parentTask) ==
  IF parentTask # NoTask /\ parentTask \notin TaskExecutions THEN
    [code |-> "NotFound", nodeExecutions |-> nodeExecutions,
     nodeExecutionEvents |-> nodeExecutionEvents]
  ELSE
    [code |-> "OK",
     nodeExecutions |-> [nodeExecutions EXCEPT ![<<id, node>>] =
        [phase |-> phase, parentTaskExecutionID |-> parentTask]],
     nodeExecutionEvents |-> [nodeExecutionEvents EXCEPT ![<<id, node>>] =
        Append(@, CreateNodeExecutionEventModel(id, node, requestId, phase))]]

\* Mutant: an event for a stored node execution inserts the node execution anew.
updateNodeExecutionWithEventAsCreate(id, node, phase, requestId, child, nodeExecutionModel) ==
  createNodeExecutionWithEvent(id, node, phase, requestId, NoTask)

\* updateNodeExecutionWithEvent: the phase check, the child execution that
\* must exist, then the model and the event are stored together.
updateNodeExecutionWithEvent(id, node, phase, requestId, child, nodeExecutionModel) ==
  LET check == CheckNodePhase(nodeExecutionModel.phase, phase) IN
  IF check # "OK" THEN
    [code |-> check, nodeExecutions |-> nodeExecutions,
     nodeExecutionEvents |-> nodeExecutionEvents]
  ELSE IF child # NoChild /\ GetExecutionModel(child) = NoExecution THEN
    [code |-> "NotFound", nodeExecutions |-> nodeExecutions,
     nodeExecutionEvents |-> nodeExecutionEvents]
  ELSE
    [code |-> "OK",
     nodeExecutions |-> [nodeExecutions EXCEPT ![<<id, node>>] =
        UpdateNodeExecutionModel(nodeExecutionModel, phase)],
     nodeExecutionEvents |-> [nodeExecutionEvents EXCEPT ![<<id, node>>] =
        Append(@, CreateNodeExecutionEventModel(id, node, requestId, phase))]]

\* The gauge and the counters after an accepted node event.
NodeEventMetrics(m, phase) ==
  LET a == IF phase = "RUNNING" THEN Inc(m, "ActiveNodeExecutions")
           ELSE IF IsNodeExecutionTerminal(phase)
             THEN Inc(Dec(m, "ActiveNodeExecutions"), "NodeExecutionsTerminated")
           ELSE m
  IN Inc(a, "NodeExecutionEventsCreated")

\* Mutant: the workflow execution of the node is not looked up.
WorkflowExecutionMissingIgnored(id) == FALSE

\* util.GetExecutionModel returned an error for the event's workflow execution.
WorkflowExecutionMissing(id) == executions[id] = NoExecution

CreateNodeEvent(id, node, phase, requestId, parentTask, child) ==
  LET nodeExecutionModel == nodeExecutions[<<id, node>>]
      unseen == nodeExecutionModel = NoNodeExecution
      done == IF unseen
                THEN createNodeExecutionWithEvent(id, node, phase, requestId, parentTask)
                ELSE updateNodeExecutionWithEvent(
                       id, node, phase, requestId, child, nodeExecutionModel)
      curPhase == IF unseen THEN "-" ELSE nodeExecutionModel.phase
      detail == [parentTask |-> parentTask, child |-> child]
  IN
  /\ IF WorkflowExecutionMissing(id) THEN
       /\ metrics.MissingWorkflowExecution < MaxMissing
       /\ metrics' = Inc(metrics, "MissingWorkflowExecution")
       /\ resp' = ResponseWith("CreateNodeEvent", id, node, phase, "-",
                               "NotFound", detail)
       /\ UNCHANGED << nodeExecutions, nodeExecutionEvents >>
     ELSE IF done.code = "alreadyInTerminalStatus" THEN
       /\ resp' = ResponseWith("CreateNodeEvent", id, node, phase, curPhase,
                               "FailedPrecondition", detail)
       /\ UNCHANGED << nodeExecutions, nodeExecutionEvents, metrics >>
     ELSE IF done.code # "OK" THEN
       /\ resp' = ResponseWith("CreateNodeEvent", id, node, phase, curPhase,
                               done.code, detail)
       /\ UNCHANGED << nodeExecutions, nodeExecutionEvents, metrics >>
     ELSE
       /\ Rows(nodeExecutionEvents, NodeKeys) < MaxNodeEvents
       /\ nodeExecutions' = done.nodeExecutions
       /\ nodeExecutionEvents' = done.nodeExecutionEvents
       /\ metrics' =
            NodeEventMetrics(
              IF unseen THEN Inc(metrics, "NodeExecutionsCreated") ELSE metrics,
              phase)
       /\ resp' = ResponseWith("CreateNodeEvent", id, node, phase, curPhase,
                               "OK", detail)
  /\ UNCHANGED << executions, executionEvents, storage, dispatched,
                  systemMetrics, published, inflight, aborted, tasks, processor,
                  userMetrics >>

\* ------------------------------------------------- notification Processor
\* What a message of the subscription holds: a body that is not JSON, a JSON
\* object without a "Message" field, one whose "Message" is not a string, one
\* whose "Message" is not base64, one whose bytes are not an EmailMessage,
\* and a well-formed one.
MessageKinds ==
  {"badJSON", "noMessageField", "nonStringMessage", "badBase64", "badProto", "ok"}

\* What sub.Err() reports once the channel is closed.
SubscriptionErrors == {"nil", "subscriber error"}

\* A variant that goes on to SendEmail with bytes that are not an
\* EmailMessage.
DecodeFailureProtoIgnored(kind) ==
  CASE kind = "badJSON" -> "MessageDecodingError"
    [] kind = "noMessageField" -> "MessageDataError"
    [] kind = "nonStringMessage" -> "MessageDataError"
    [] kind = "badBase64" -> "MessageDecodingError"
    [] OTHER -> "none"

\* The counter of the first of the four decoding stages of StartProcessing
\* that fails on a message; "none" when all four succeed.
DecodeFailure(kind) ==
  CASE kind = "badJSON" -> "MessageDecodingError"
    [] kind = "noMessageField" -> "MessageDataError"
    [] kind = "nonStringMessage" -> "MessageDataError"
    [] kind = "badBase64" -> "MessageDecodingError"
    [] kind = "badProto" -> "MessageDecodingError"
    [] OTHER -> "none"

\* for msg := range p.sub.Start(): the loop takes the next message of the
\* open channel.
ReceiveMessage(kind) ==
  /\ processor.pc = "range"
  /\ ~processor.closed
  /\ Len(processor.handled) < MaxMessages
  /\ processor' =
       [Inc(processor, "MessageTotal") EXCEPT
          !.pc = "decode",
          !.current = [kind |-> kind],
          !.handled = Append(@, [kind |-> kind, sends |-> 0, done |-> 0])]
  /\ UNCHANGED << executions, executionEvents, nodeExecutions,
                  nodeExecutionEvents, storage, dispatched, aborted,
                  systemMetrics, metrics, published, tasks, resp, inflight,
                  userMetrics >>

\* The body of the loop up to markMessageDone: the four decoding stages and,
\* when all succeed, the one call of SendEmail, which fails or not.
DecodeAndSend(sendFails) ==
  /\ processor.pc = "decode"
  /\ LET failure == DecodeFailure(processor.current.kind)
          last == Len(processor.handled)
     IN processor' =
          IF failure # "none"
          THEN [Inc(processor, failure) EXCEPT !.pc = "markDone"]
          ELSE [Inc(processor, IF sendFails THEN "MessageProcessorError"
                                            ELSE "MessageSuccess") EXCEPT
                  !.pc = "markDone",
                  !.handled[last].sends = @ + 1]
  /\ UNCHANGED << executions, executionEvents, nodeExecutions,
                  nodeExecutionEvents, storage, dispatched, aborted,
                  systemMetrics, metrics, published, tasks, resp, inflight,
                  userMetrics >>

\* A variant that goes back to the head of the loop without calling Done.
markMessageDoneSkipped(doneFails) ==
  /\ processor.pc = "markDone"
  /\ processor' = [processor EXCEPT !.pc = "range", !.current = NoMessage]
  /\ UNCHANGED << executions, executionEvents, nodeExecutions,
                  nodeExecutionEvents, storage, dispatched, aborted,
                  systemMetrics, metrics, published, tasks, resp, inflight,
                  userMetrics >>

\* markMessageDone calls Done on the message and counts a failure of it; the
\* loop then goes back to its head.
markMessageDone(doneFails) ==
  /\ processor.pc = "markDone"
  /\ LET last == Len(processor.handled)
         p == IF doneFails THEN Inc(processor, "MessageDoneError") ELSE processor
     IN processor' =
          [p EXCEPT !.pc = "range", !.current = NoMessage,
                    !.handled[last].done = @ + 1]
  /\ UNCHANGED << executions, executionEvents, nodeExecutions,
                  nodeExecutionEvents, storage, dispatched, aborted,
                  systemMetrics, metrics, published, tasks, resp, inflight,
                  userMetrics >>

\* The subscription closes its channel, with an error or without one.
CloseChannel(err) ==
  /\ ~processor.closed
  /\ processor' = [processor EXCEPT !.closed = TRUE, !.err = err]
  /\ UNCHANGED << executions, executionEvents, nodeExecutions,
                  nodeExecutionEvents, storage, dispatched, aborted,
                  systemMetrics, metrics, published, tasks, resp, inflight,
                  userMetrics >>

\* StopProcessing calls sub.Stop(), which closes the channel and fails when
\* the channel is closed already.
StopProcessing ==
  /\ processor.StopError < MaxStops
  /\ processor' =
       IF processor.closed
       THEN Inc(processor, "StopError")
       ELSE [processor EXCEPT !.closed = TRUE]
  /\ UNCHANGED << executions, executionEvents, nodeExecutions,
                  nodeExecutionEvents, storage, dispatched, aborted,
                  systemMetrics, metrics, published, tasks, resp, inflight,
                  userMetrics >>

\* A variant that counts every close of the channel as an error.
StartProcessingReturnsCounting ==
  /\ processor.pc = "range"
  /\ processor.closed
  /\ processor' =
       [Inc(processor, "ChannelClosedError") EXCEPT
          !.pc = "returned", !.returned = processor.err]
  /\ UNCHANGED << executions, executionEvents, nodeExecutions,
                  nodeExecutionEvents, storage, dispatched, aborted,
                  systemMetrics, metrics, published, tasks, resp, inflight,
                  userMetrics >>

\* The loop ends on the closed channel; StartProcessing asks sub.Err(),
\* counts an error and returns it.
StartProcessingReturns ==
  /\ processor.pc = "range"
  /\ processor.closed
  /\ LET p == IF processor.err # "nil"
              THEN Inc(processor, "ChannelClosedError") ELSE processor
     IN processor' = [p EXCEPT !.pc = "returned", !.returned = processor.err]
  /\ UNCHANGED << executions, executionEvents, nodeExecutions,
                  nodeExecutionEvents, storage, dispatched, aborted,
                  systemMetrics, metrics, published, tasks, resp, inflight,
                  userMetrics >>

\* ---------------------------------------------------------- queue allocator
\* singleQueueConfiguration when nothing matches: both names are empty.
NoQueue == [PrimaryQueue |-> "", DynamicQueue |-> ""]

\* Workflow-scoped rules (WorkflowConfig): a catch-all for workflow "w1", a
\* rule for "w1" on "gpu" tasks and a rule for "w2" on "critical" tasks.
WorkflowRules ==
  { [project |-> "p", domain |-> "d", workflowName |-> "w1", tags |-> {},
     primary |-> "w1_any", dynamic |-> "w1_any_dynamic"],
    [project |-> "p", domain |-> "d", workflowName |-> "w1", tags |-> {"gpu"},
     primary |-> "w1_gpu", dynamic |-> "w1_gpu_dynamic"],
    [project |-> "p", domain |-> "d", workflowName |-> "w2", tags |-> {"critical"},
     primary |-> "w2_critical", dynamic |-> "w2_critical_dynamic"] }

\* The workflowConfigs of a snapshot: distinct rules in a configured order.
WorkflowConfigs ==
  { rules \in UNION { [1..n -> WorkflowRules] : n \in 0..MaxRules } :
      \A i, j \in DOMAIN rules : rules[i] = rules[j] => i = j }

\* Attribute rules (ExecutionQueue), as in the sample configuration.
GpuQueue ==
  [Primary |-> "gpu_primary", Dynamic |-> "gpu_dynamic", Attributes |-> {"gpu"}]
CriticalQueue ==
  [Primary |-> "critical", Dynamic |-> "critical", Attributes |-> {"critical", "gpu"}]

\* The executionQueues of a snapshot.
ExecutionQueues ==
  { << >>, << GpuQueue, CriticalQueue >>, << CriticalQueue, GpuQueue >> }

\* QueueConfig snapshots.
QueueConfigs ==
  { [executionQueues |-> queues, workflowConfigs |-> rules] :
      queues \in ExecutionQueues, rules \in WorkflowConfigs }

\* The workflows a queue is asked for, and the resource tags of a task.
WorkflowIdentifiers ==
  { [project |-> "p", domain |-> "d", name |-> name] : name \in {"w1", "w2"} }
ResourceTags == SUBSET {"gpu", "critical"}

\* A workflow-scoped rule matches the workflow and the tags.
WorkflowConfigMatches(rule, identifier, tags) ==
  /\ rule.project = identifier.project
  /\ rule.domain = identifier.domain
  /\ rule.workflowName = identifier.name
  /\ (rule.tags = {} \/ rule.tags \cap tags # {})

\* An attribute rule matches the tags.
ExecutionQueueMatches(queue, tags) == queue.Attributes \cap tags # {}

\* The first of the indices of the rules that match; 0 when none does.
FirstIndex(matching) ==
  IF matching = {} THEN 0
  ELSE CHOOSE i \in matching : \A j \in matching : i <= j

\* A variant that takes the last matching workflow-scoped rule.
GetQueueLastMatch(config, identifier, tags) ==
  LET rules == config.workflowConfigs
      queues == config.executionQueues
      matching == { i \in DOMAIN rules : WorkflowConfigMatches(rules[i], identifier, tags) }
      q == FirstIndex({ i \in DOMAIN queues : ExecutionQueueMatches(queues[i], tags) })
  IN IF matching # {}
     THEN LET w == CHOOSE i \in matching : \A j \in matching : j <= i
          IN [PrimaryQueue |-> rules[w].primary, DynamicQueue |-> rules[w].dynamic]
     ELSE IF q # 0
     THEN [PrimaryQueue |-> queues[q].Primary, DynamicQueue |-> queues[q].Dynamic]
     ELSE NoQueue

\* queueAllocator.GetQueue: the first matching workflow-scoped rule, else the
\* first matching attribute rule, else no queue.
GetQueue(config, identifier, tags) ==
  LET rules == config.workflowConfigs
      queues == config.executionQueues
      w == FirstIndex({ i \in DOMAIN rules : WorkflowConfigMatches(rules[i], identifier, tags) })
      q == FirstIndex({ i \in DOMAIN queues : ExecutionQueueMatches(queues[i], tags) })
  IN IF w # 0
     THEN [PrimaryQueue |-> rules[w].primary, DynamicQueue |-> rules[w].dynamic]
     ELSE IF q # 0
     THEN [PrimaryQueue |-> queues[q].Primary, DynamicQueue |-> queues[q].Dynamic]
     ELSE NoQueue

\* The allocator is asked for the queue of a workflow under a snapshot.
AllocateQueue(config, identifier, tags) ==
  /\ resp' = ResponseWith("GetQueue", identifier.name, "-", "-", "-", "OK",
                          [config |-> config, identifier |-> identifier,
                           tags |-> tags,
                           queue |-> GetQueue(config, identifier, tags)])
  /\ UNCHANGED << executions, executionEvents, nodeExecutions,
                  nodeExecutionEvents, storage, dispatched, aborted,
                  systemMetrics, metrics, published, tasks, processor, inflight,
                  userMetrics >>

\* The keys populateExecutionQueue writes.
parentContainerQueueKey == "parent_queue"
childContainerQueueKey == "child_queue"

\* Tasks of a compiled workflow: one without a container target, a container
\* without configuration and a container that has a configuration entry.
CompiledTasks ==
  { [container |-> FALSE, config |-> << >>],
    [container |-> TRUE, config |-> << >>],
    [container |-> TRUE, config |-> << [Key |-> "image", Value |-> "i"] >>] }

CompiledWorkflows ==
  UNION { [1..n -> CompiledTasks] : n \in 0..MaxWorkflowTasks }

\* The snapshots the queues are populated under: no workflow-scoped rule or
\* the "gpu" rule of workflow "w1", no attribute rule or both.
PopulateConfigs ==
  { config \in QueueConfigs :
      /\ config.executionQueues \in { << >>, << GpuQueue, CriticalQueue >> }
      /\ \A i \in DOMAIN config.workflowConfigs :
           i = 1 /\ config.workflowConfigs[i].tags = {"gpu"} }

\* A variant that also writes to tasks without a container target.
WithQueueKeysAnyTarget(task, queueConfig) ==
  LET parent == IF queueConfig.PrimaryQueue # ""
                  THEN << [Key |-> parentContainerQueueKey,
                           Value |-> queueConfig.PrimaryQueue] >>
                  ELSE << >>
      child == IF queueConfig.DynamicQueue # ""
                 THEN << [Key |-> childContainerQueueKey,
                          Value |-> queueConfig.DynamicQueue] >>
                 ELSE << >>
  IN [task EXCEPT !.config = @ \o parent \o child]

\* The body of the loop of populateExecutionQueue for one task.
WithQueueKeys(task, queueConfig) ==
  IF ~task.container THEN task
  ELSE
    LET parent == IF queueConfig.PrimaryQueue # ""
                    THEN << [Key |-> parentContainerQueueKey,
                             Value |-> queueConfig.PrimaryQueue] >>
                    ELSE << >>
        child == IF queueConfig.DynamicQueue # ""
                   THEN << [Key |-> childContainerQueueKey,
                            Value |-> queueConfig.DynamicQueue] >>
                   ELSE << >>
    IN [task EXCEPT !.config = @ \o parent \o child]

\* populateExecutionQueue: one call of GetQueue for the workflow, then every
\* task of the compiled workflow in turn.
populateExecutionQueue(config, identifier, tags, compiledWorkflow) ==
  LET queueConfig == GetQueue(config, identifier, tags) IN
  /\ resp' = ResponseWith("populateExecutionQueue", identifier.name, "-", "-", "-", "OK",
                          [config |-> config, identifier |-> identifier,
                           tags |-> tags, queue |-> queueConfig,
                           before |-> compiledWorkflow,
                           tasks |-> [i \in DOMAIN compiledWorkflow |->
                                        WithQueueKeys(compiledWorkflow[i], queueConfig)]])
  /\ UNCHANGED << executions, executionEvents, nodeExecutions,
                  nodeExecutionEvents, storage, dispatched, aborted,
                  systemMetrics, metrics, published, tasks, processor, inflight,
                  userMetrics >>

\* ------------------------------------------------------------ list filters
\* common.FilterExpression, common.Entity and the fields the filters are on.
FilterExpressions ==
  {"Contains", "GreaterThan", "GreaterThanOrEqual", "LessThan",
   "LessThanOrEqual", "Equal", "NotEqual", "ValueIn"}
Entities == {"Execution", "Workflow", "Task"}
FilterFields == {"project", "domain", "field"}

\* The name of an expression in an error message.
FilterExpressionName ==
  [Contains |-> "contains", GreaterThan |-> "greater than",
   GreaterThanOrEqual |-> "greater than or equal", LessThan |-> "less than",
   LessThanOrEqual |-> "less than or equal", Equal |-> "equal",
   NotEqual |-> "not equal", ValueIn |-> "value in"]

\* The query of an expression, after the column.
FilterQuery ==
  [Contains |-> " LIKE ?", GreaterThan |-> " > ?", GreaterThanOrEqual |-> " >= ?",
   LessThan |-> " < ?", LessThanOrEqual |-> " <= ?", Equal |-> " = ?",
   NotEqual |-> " <> ?", ValueIn |-> " in (?)"]

\* A variant that prefixes the identifier fields of every entity.
FilterColumnAlwaysPrefixed(entity, field) ==
  IF field = "project" THEN "execution_project"
  ELSE IF field = "domain" THEN "execution_domain"
  ELSE field

\* The column a field of an entity is rendered as.
FilterColumn(entity, field) ==
  IF entity = "Execution" /\ field = "project" THEN "execution_project"
  ELSE IF entity = "Execution" /\ field = "domain" THEN "execution_domain"
  ELSE field

\* The expressions NewSingleValueFilter and NewRepeatedValueFilter accept.
SingleValueExpression(function) == function # "ValueIn"
RepeatedValueExpression(function) == function = "ValueIn"

\* NewSingleValueFilter and, when it succeeds, GetGormQueryExpr.
NewSingleValueFilter(entity, function, field) ==
  /\ resp' =
       IF ~SingleValueExpression(function)
       THEN ResponseWith("NewSingleValueFilter", "-", "-", "-", "-", "InvalidArgument",
              [entity |-> entity, function |-> function, field |-> field,
               err |-> << "invalid single value filter expression: ",
                          FilterExpressionName[function] >>,
               query |-> << >>])
       ELSE ResponseWith("NewSingleValueFilter", "-", "-", "-", "-", "OK",
              [entity |-> entity, function |-> function, field |-> field,
               err |-> << >>,
               query |-> << FilterColumn(entity, field), FilterQuery[function] >>])
  /\ UNCHANGED << executions, executionEvents, nodeExecutions,
                  nodeExecutionEvents, storage, dispatched, aborted,
                  systemMetrics, metrics, published, tasks, processor, inflight,
                  userMetrics >>

\* NewRepeatedValueFilter and, when it succeeds, GetGormQueryExpr.
NewRepeatedValueFilter(entity, function, field) ==
  /\ resp' =
       IF ~RepeatedValueExpression(function)
       THEN ResponseWith("NewRepeatedValueFilter", "-", "-", "-", "-", "InvalidArgument",
              [entity |-> entity, function |-> function, field |-> field,
               err |-> << "invalid repeated value filter expression: ",
                          FilterExpressionName[function] >>,
               query |-> << >>])
       ELSE ResponseWith("NewRepeatedValueFilter", "-", "-", "-", "-", "OK",
              [entity |-> entity, function |-> function, field |-> field,
               err |-> << >>,
               query |-> << FilterColumn(entity, field), FilterQuery[function] >>])
  /\ UNCHANGED << executions, executionEvents, nodeExecutions,
                  nodeExecutionEvents, storage, dispatched, aborted,
                  systemMetrics, metrics, published, tasks, processor, inflight,
                  userMetrics >>

\* ---------------------------------------------------------- specifications
\* A request that carries no notifications and one that carries its own.
PlainSpec == [notifications |-> << >>, disableAll |-> FALSE, launchPlan |-> "lp"]
NotifyingSpec ==
  [notifications |-> RequestNotifications, disableAll |-> FALSE, launchPlan |-> "lp"]

\* Spec: the lifecycle of workflow executions, every call served without
\* interruption. Executions are created and the engine reports phases.
Next ==
  \/ \E id \in ExecIds, spec \in {PlainSpec, NotifyingSpec} :
       CreateExecution(id, spec, "none")
  \/ \E id \in ExecIds, phase \in EventPhases, requestId \in RequestIds,
        failing \in PublishFailures :
       CreateWorkflowEvent(id, phase, requestId, failing)

Spec == Init /\ [][Next]_vars

\* SpecCreate: creation and relaunch with every failure of the request, and
\* the reports that take an execution to a terminal phase.
NextCreate ==
  \/ \E id \in ExecIds, spec \in RequestSpecs, failAt \in CreateFailures :
       CreateExecution(id, spec, failAt)
  \/ \E sourceId \in ExecIds, name \in ExecIds, failAt \in CreateFailures :
       RelaunchExecution(sourceId, name, failAt)
  \/ \E id \in ExecIds, phase \in {"RUNNING", "SUCCEEDED"} :
       CreateWorkflowEvent(id, phase, "r1", {})

SpecCreate == Init /\ [][NextCreate]_vars

\* SpecNode: workflow executions and their node executions.
NextNode ==
  \/ \E id \in ExecIds : CreateExecution(id, PlainSpec, "none")
  \/ \E id \in ExecIds, phase \in {"RUNNING", "SUCCEEDED", "FAILED"} :
       CreateWorkflowEvent(id, phase, "r1", {})
  \/ \E id \in ExecIds, node \in NodeIds, phase \in NodeEventPhases,
        parentTask \in {NoTask, "t1"} :
       CreateNodeEvent(id, node, phase, "r1", parentTask, NoChild)

SpecNode == Init /\ [][NextNode]_vars

\* SpecNodeRefs: node events that name a parent task execution or a child
\* workflow execution, stored or not.
NextNodeRefs ==
  \/ \E id \in ExecIds : CreateExecution(id, PlainSpec, "none")
  \/ \E id \in ExecIds, node \in NodeIds, phase \in {"RUNNING", "SUCCEEDED"},
        parentTask \in TaskRefs, child \in ChildRefs :
       CreateNodeEvent(id, node, phase, "r1", parentTask, child)

SpecNodeRefs == Init /\ [][NextNodeRefs]_vars

\* SpecConc: request tasks serve CreateWorkflowEvent calls in parallel.
NextConc ==
  \/ \E id \in ExecIds : CreateExecution(id, NotifyingSpec, "none")
  \/ \E p \in Procs, id \in ExecIds, phase \in {"RUNNING", "SUCCEEDED", "FAILED"} :
       BeginWorkflowEvent(p, id, phase, "r1", {})
  \/ \E p \in Procs : FinishWorkflowEvent(p)

SpecConc == Init /\ [][NextConc]_vars

\* SpecNotify: executions with every resolution of the notification list, and
\* the reports that take them to a terminal phase, with failing Publish calls.
NextNotify ==
  \/ \E id \in ExecIds, spec \in NotifySpecs : CreateExecution(id, spec, "none")
  \/ \E id \in ExecIds, phase \in {"RUNNING", "SUCCEEDED", "FAILED"},
        failing \in NotifyPublishFailures :
       CreateWorkflowEvent(id, phase, "r1", failing)

SpecNotify == Init /\ [][NextNotify]_vars

\* SpecList: the list calls of the three managers, on what CreateExecution,
\* CreateNodeEvent and CreateTask have stored.
NextList ==
  \/ \E id \in ExecIds : CreateExecution(id, PlainSpec, "none")
  \/ \E id \in ExecIds, parentTask \in {NoTask, "t1"} :
       CreateNodeEvent(id, "n1", "RUNNING", "r1", parentTask, NoChild)
  \/ \E name \in TaskNames, version \in TaskVersions :
       CreateTask(name, version, "d1", "none")
  \/ \E limit \in Limits, token \in Tokens : ListExecutions(limit, token)
  \/ \E id \in ExecIds, limit \in Limits, token \in Tokens :
       ListNodeExecutions(id, limit, token)
  \/ \E id \in ExecIds, task \in {"t1", "t2"}, token \in Tokens :
       ListNodeExecutionsForTask(id, task, 1, token)
  \/ \E limit \in Limits, token \in Tokens : ListTasks(limit, token)
  \/ \E limit \in Limits, token \in Tokens : ListUniqueTaskIdentifiers(limit, token)

SpecList == Init /\ [][NextList]_vars

\* An execution stored before inputs were offloaded: its inputs are inline in
\* its closure and it has no reference to them.
InlineInputsExecutions ==
  { [phase |-> ph, mode |-> "MANUAL", spec |-> PlainSpec,
     notifications |-> LaunchPlanNotifications, source |-> NoSource,
     inputsURI |-> "", userInputsURI |-> "", abortCause |-> NoCause] : ph \in {"RUNNING", "SUCCEEDED"} }

\* The repository of SpecRead at start: "e1" may be such an execution.
InitRead ==
  /\ executions \in
       { [id \in ExecIds |-> IF id = "e1" THEN m ELSE NoExecution] :
           m \in InlineInputsExecutions \cup {NoExecution} }
  /\ executionEvents = [id \in ExecIds |-> << >>]
  /\ nodeExecutions = [k \in NodeKeys |-> NoNodeExecution]
  /\ nodeExecutionEvents = [k \in NodeKeys |-> << >>]
  /\ storage = {}
  /\ dispatched = {}
  /\ aborted = {}
  /\ systemMetrics =
       [ActiveExecutions |-> 0, ExecutionsCreated |-> 0,
        ExecutionsTerminated |-> 0, ExecutionEventsCreated |-> 0,
        PropellerFailures |-> 0, PublishNotificationError |-> 0,
        UnexpectedDataError |-> 0]
  /\ metrics =
       [ActiveNodeExecutions |-> 0, NodeExecutionsCreated |-> 0,
        NodeExecutionsTerminated |-> 0, NodeExecutionEventsCreated |-> 0,
        MissingWorkflowExecution |-> 0]
  /\ published = << >>
  /\ tasks = << >>
  /\ processor = NewProcessor
  /\ userMetrics = NewUserMetrics
  /\ resp = [op |-> "-", id |-> "-", node |-> "-", phase |-> "-",
             curPhase |-> "-", code |-> "-", detail |-> NoDetail]
  /\ inflight = [p \in Procs |-> NoCall]

\* SpecRead: termination and the reads, on executions of this manager and on
\* executions stored with inline inputs.
NextRead ==
  \/ \E id \in ExecIds : CreateExecution(id, PlainSpec, "none")
  \/ \E id \in ExecIds, phase \in {"RUNNING", "SUCCEEDED"} :
       CreateWorkflowEvent(id, phase, "r1", {})
  \/ \E id \in ExecIds, cause \in Causes, failAt \in TerminateFailures :
       TerminateExecution(id, cause, failAt)
  \/ \E id \in ExecIds : GetExecution(id)
  \/ \E id \in ExecIds, failAt \in GetDataFailures : GetExecutionData(id, failAt)
  \/ \E token \in Tokens : ListExecutions(1, token)

SpecRead == InitRead /\ [][NextRead]_vars

\* SpecRelaunch: relaunches of executions of this manager and of executions
\* stored with inline inputs, before and after their inputs were offloaded by
\* GetExecutionData.
NextRelaunch ==
  \/ \E id \in ExecIds : CreateExecution(id, PlainSpec, "none")
  \/ \E sourceId \in ExecIds, name \in ExecIds, failAt \in RelaunchFailures :
       RelaunchExecution(sourceId, name, failAt)
  \/ \E id \in ExecIds : CreateWorkflowEvent(id, "SUCCEEDED", "r1", {})
  \/ \E id \in ExecIds : GetExecutionData(id, "none")

SpecRelaunch == InitRead /\ [][NextRelaunch]_vars

\* The notification Processor: StartProcessing runs in its own goroutine, so
\* each step of its loop is taken once it can be; the subscription delivers
\* and closes when it likes.
NextProcessor ==
  \/ \E kind \in MessageKinds : ReceiveMessage(kind)
  \/ \E sendFails \in BOOLEAN : DecodeAndSend(sendFails)
  \/ \E doneFails \in BOOLEAN : markMessageDone(doneFails)
  \/ \E err \in SubscriptionErrors : CloseChannel(err)
  \/ StopProcessing
  \/ StartProcessingReturns

SpecProcessor ==
  /\ Init
  /\ [][NextProcessor]_vars
  /\ WF_vars(\E sendFails \in BOOLEAN : DecodeAndSend(sendFails))
  /\ WF_vars(\E doneFails \in BOOLEAN : markMessageDone(doneFails))
  /\ WF_vars(StartProcessingReturns)

\* The queue allocator over every snapshot and every input.
NextQueue ==
  \/ \E config \in QueueConfigs, identifier \in WorkflowIdentifiers, tags \in ResourceTags :
       AllocateQueue(config, identifier, tags)
  \/ \E config \in PopulateConfigs, identifier \in WorkflowIdentifiers,
        tags \in ResourceTags, compiledWorkflow \in CompiledWorkflows :
       populateExecutionQueue(config, identifier, tags, compiledWorkflow)

SpecQueue == Init /\ [][NextQueue]_vars

\* The two constructors of filters over every entity, expression and field.
NextFilter ==
  \/ \E entity \in Entities, function \in FilterExpressions, field \in FilterFields :
       NewSingleValueFilter(entity, function, field)
  \/ \E entity \in Entities, function \in FilterExpressions, field \in FilterFields :
       NewRepeatedValueFilter(entity, function, field)

SpecFilter == Init /\ [][NextFilter]_vars

\* Request tasks that serve events and terminations of one execution in
\* parallel.
NextTerminate ==
  \/ CreateExecution("e1", PlainSpec, "none")
  \/ \E p \in Procs, id \in ExecIds, phase \in {"RUNNING", "SUCCEEDED"} :
       BeginWorkflowEvent(p, id, phase, "r1", {})
  \/ \E p \in Procs : FinishWorkflowEvent(p)
  \/ \E p \in Procs, id \in ExecIds, cause \in Causes :
       BeginTerminateExecution(p, id, cause)
  \/ \E p \in Procs, failAt \in TerminateFailures :
       FinishTerminateExecution(p, failAt)

SpecTerminate == Init /\ [][NextTerminate]_vars

\* Registrations of tasks of every identifier and digest.
NextTask ==
  \/ \E name \in TaskNames, version \in TaskVersions, digest \in TaskDigests,
        failAt \in CreateTaskFailures :
       CreateTask(name, version, digest, failAt)
  \/ \E limit \in Limits, token \in Tokens : ListTasks(limit, token)

SpecTask == Init /\ [][NextTask]_vars

\* ---------------------------------------------------------------- emitters
\* CreateExecution for a request whose metadata name the mode.
CreateExecutionWithMode(id, spec, mode, failAt) ==
  LaunchAndCreate("CreateExecution", id, spec, mode, NoSource, failAt, NoDetail)

Running(g) == userMetrics.goroutines[g]

\* A goroutine CreateWorkflowEvent started begins to run. The emitter of the
\* scheduled delay returns early when the launch plan, the kickoff time
\* argument or the inputs are not found; otherwise the emitter reads the
\* domain map of the project.
EmitterStart(g, kind, returnsEarly) ==
  /\ userMetrics.pending[kind] > 0
  /\ Running(g) = NoGoroutine
  /\ returnsEarly => kind = "ScheduledExecutionDelays"
  /\ userMetrics' =
       IF returnsEarly
         THEN [userMetrics EXCEPT !.pending[kind] = @ - 1,
                                  !.returned[kind] = @ + 1]
         ELSE [userMetrics EXCEPT
                 !.pending[kind] = @ - 1,
                 !.goroutines[g] =
                   [pc |-> IF userMetrics.projects[kind] = 0
                             THEN "storeProjectMap" ELSE "readDomainMap",
                    kind |-> kind,
                    map |-> userMetrics.projects[kind]]]
  /\ UNCHANGED << executions, executionEvents, nodeExecutions,
                  nodeExecutionEvents, storage, dispatched, aborted,
                  systemMetrics, metrics, published, tasks, processor, resp,
                  inflight >>

\* The goroutine found no domain map for the project: it makes one and
\* stores it under the project.
StoreProjectMap(g) ==
  /\ Running(g).pc = "storeProjectMap"
  /\ LET made == Len(userMetrics.domainMaps) + 1 IN
       userMetrics' =
         [userMetrics EXCEPT
            !.domainMaps = Append(@, FALSE),
            !.projects[Running(g).kind] = made,
            !.goroutines[g] = [@ EXCEPT !.pc = "readDomainMap", !.map = made]]
  /\ UNCHANGED << executions, executionEvents, nodeExecutions,
                  nodeExecutionEvents, storage, dispatched, aborted,
                  systemMetrics, metrics, published, tasks, processor, resp,
                  inflight >>

\* The goroutine looks the domain up in the domain map it holds.
ReadDomainMap(g) ==
  /\ Running(g).pc = "readDomainMap"
  /\ userMetrics' =
       [userMetrics EXCEPT
          !.goroutines[g].pc =
            IF userMetrics.domainMaps[Running(g).map]
              THEN "observe" ELSE "newStopWatch"]
  /\ UNCHANGED << executions, executionEvents, nodeExecutions,
                  nodeExecutionEvents, storage, dispatched, aborted,
                  systemMetrics, metrics, published, tasks, processor, resp,
                  inflight >>

\* The goroutine asks the scope of the project and domain for a new
\* stopwatch: the scope returns an error when the name is registered already,
\* and the goroutine returns without observing.
NewStopWatch(g) ==
  /\ Running(g).pc = "newStopWatch"
  /\ userMetrics' =
       IF userMetrics.registered[Running(g).kind]
         THEN [userMetrics EXCEPT !.dropped[Running(g).kind] = @ + 1,
                                  !.goroutines[g] = NoGoroutine]
         ELSE [userMetrics EXCEPT !.registered[Running(g).kind] = TRUE,
                                  !.goroutines[g].pc = "storeWatch"]
  /\ UNCHANGED << executions, executionEvents, nodeExecutions,
                  nodeExecutionEvents, storage, dispatched, aborted,
                  systemMetrics, metrics, published, tasks, processor, resp,
                  inflight >>

\* The goroutine stores the new stopwatch in the domain map it holds.
StoreWatch(g) ==
  /\ Running(g).pc = "storeWatch"
  /\ userMetrics' =
       [userMetrics EXCEPT !.domainMaps[Running(g).map] = TRUE,
                           !.goroutines[g].pc = "observe"]
  /\ UNCHANGED << executions, executionEvents, nodeExecutions,
                  nodeExecutionEvents, storage, dispatched, aborted,
                  systemMetrics, metrics, published, tasks, processor, resp,
                  inflight >>

\* A variant in which a failure of the emitter of the duration reaches the
\* answer of the call.
ObserveSurfacing(g, returnsEarly) ==
  /\ Running(g).pc = "observe"
  /\ returnsEarly => Running(g).kind = "WorkflowExecutionDurations"
  /\ userMetrics' =
       IF returnsEarly
         THEN [userMetrics EXCEPT !.returned[Running(g).kind] = @ + 1,
                                  !.goroutines[g] = NoGoroutine]
         ELSE [userMetrics EXCEPT !.observed[Running(g).kind] = @ + 1,
                                  !.goroutines[g] = NoGoroutine]
  /\ resp' = IF returnsEarly THEN [resp EXCEPT !.code = "Internal"] ELSE resp
  /\ UNCHANGED << executions, executionEvents, nodeExecutions,
                  nodeExecutionEvents, storage, dispatched, aborted,
                  systemMetrics, metrics, published, tasks, processor,
                  inflight >>

\* The goroutine observes on the stopwatch; the emitter of the duration
\* returns without observing when the time of the event does not convert or
\* the model has no ExecutionCreatedAt.
Observe(g, returnsEarly) ==
  /\ Running(g).pc = "observe"
  /\ returnsEarly => Running(g).kind = "WorkflowExecutionDurations"
  /\ userMetrics' =
       IF returnsEarly
         THEN [userMetrics EXCEPT !.returned[Running(g).kind] = @ + 1,
                                  !.goroutines[g] = NoGoroutine]
         ELSE [userMetrics EXCEPT !.observed[Running(g).kind] = @ + 1,
                                  !.goroutines[g] = NoGoroutine]
  /\ UNCHANGED << executions, executionEvents, nodeExecutions,
                  nodeExecutionEvents, storage, dispatched, aborted,
                  systemMetrics, metrics, published, tasks, processor, resp,
                  inflight >>

\* The maps are plain Go maps with no lock: a write that runs while another
\* goroutine accesses the maps of the same metric is a data race, on which
\* the runtime may end the process ("concurrent map writes"). The process
\* starts again with the maps NewExecutionManager makes and no goroutine.
ConcurrentMapFault(g) ==
  /\ Running(g).pc \in {"storeProjectMap", "storeWatch"}
  /\ \E h \in Goroutines \ {g} :
       /\ Running(h).pc \in {"storeProjectMap", "readDomainMap", "storeWatch"}
       /\ Running(h).kind = Running(g).kind
  /\ userMetrics' = [NewUserMetrics EXCEPT !.faults = userMetrics.faults + 1]
  /\ UNCHANGED << executions, executionEvents, nodeExecutions,
                  nodeExecutionEvents, storage, dispatched, aborted,
                  systemMetrics, metrics, published, tasks, processor, resp,
                  inflight >>

\* Executions of both modes, their events and the goroutines of the emitters.
NextMetrics ==
  \/ \E id \in ExecIds, mode \in {"MANUAL", "SCHEDULED"} :
       CreateExecutionWithMode(id, PlainSpec, mode, "none")
  \/ \E id \in ExecIds, phase \in {"RUNNING", "SUCCEEDED"} :
       CreateWorkflowEvent(id, phase, "r1", {})
  \/ \E g \in Goroutines, kind \in MetricKinds, returnsEarly \in BOOLEAN :
       EmitterStart(g, kind, returnsEarly)
  \/ \E g \in Goroutines : StoreProjectMap(g)
  \/ \E g \in Goroutines : ReadDomainMap(g)
  \/ \E g \in Goroutines : NewStopWatch(g)
  \/ \E g \in Goroutines : StoreWatch(g)
  \/ \E g \in Goroutines, returnsEarly \in BOOLEAN : Observe(g, returnsEarly)
  \/ \E g \in Goroutines : ConcurrentMapFault(g)

SpecMetrics == Init /\ [][NextMetrics]_vars

\* ------------------------------------------------------------------ claims
\* Everything the managers keep, but the answer of the last call.
data ==
  << executions, executionEvents, nodeExecutions, nodeExecutionEvents, storage,
     dispatched, aborted, systemMetrics, metrics, published, tasks >>

Exists(id) == executions[id] # NoExecution
NodeExists(k) == nodeExecutions[k] # NoNodeExecution
EventPhasesOf(id) == [i \in 1..Len(executionEvents[id]) |-> executionEvents[id][i].phase]

\* C1 (as claimed): a CreateWorkflowEvent call that finds a terminal phase
\* recorded fails with FailedPrecondition, whatever phase it reports.
C1_TerminalAlwaysFailedPrecondition ==
  (resp.op = "CreateWorkflowEvent" /\ IsExecutionTerminal(resp.curPhase))
    => resp.code = "FailedPrecondition"

\* C1 (amended): a CreateWorkflowEvent call that finds a terminal phase recorded
\* is rejected: with AlreadyExists when it reports that same phase, with
\* FailedPrecondition when it reports any other phase.
C1_TerminalRejects ==
  (resp.op = "CreateWorkflowEvent" /\ IsExecutionTerminal(resp.curPhase))
    => resp.code =
         IF resp.phase = resp.curPhase THEN "AlreadyExists" ELSE "FailedPrecondition"

C1_Witness ==
  /\ resp.op = "CreateWorkflowEvent"
  /\ IsExecutionTerminal(resp.curPhase)
  /\ resp.phase # resp.curPhase
  /\ resp.code = "FailedPrecondition"

\* C2: an event that reports the phase currently recorded, of a workflow
\* execution or of a node execution, terminal or not, is answered AlreadyExists
\* and changes nothing: no phase, no event row, no counter, no notification.
C2_DuplicatePhaseRejected ==
  [][ /\ \A id \in ExecIds :
           ( /\ resp'.op = "CreateWorkflowEvent" /\ resp'.id = id
             /\ Exists(id) /\ resp'.phase = executions[id].phase )
           => (resp'.code = "AlreadyExists" /\ UNCHANGED data)
      /\ \A k \in NodeKeys :
           ( /\ resp'.op = "CreateNodeEvent" /\ resp'.id = k[1] /\ resp'.node = k[2]
             /\ Exists(k[1]) /\ NodeExists(k)
             /\ resp'.phase = nodeExecutions[k].phase )
           => (resp'.code = "AlreadyExists" /\ UNCHANGED data)
    ]_vars

C2_Witness ==
  /\ resp.op = "CreateNodeEvent"
  /\ resp.code = "AlreadyExists"
  /\ IsNodeExecutionTerminal(resp.curPhase)
  /\ IsExecutionTerminal(executions[resp.id].phase)
  /\ Len(executionEvents[resp.id]) = 2

\* C3: with calls served one after the other, a terminal phase of a workflow
\* execution or of a node execution never changes again, and no event row is
\* added for that identity.
C3_TerminalIsFinal ==
  [][ /\ \A id \in ExecIds :
           (Exists(id) /\ IsExecutionTerminal(executions[id].phase))
           => /\ executions'[id].phase = executions[id].phase
              /\ executionEvents'[id] = executionEvents[id]
      /\ \A k \in NodeKeys :
           (NodeExists(k) /\ IsNodeExecutionTerminal(nodeExecutions[k].phase))
           => /\ nodeExecutions'[k].phase = nodeExecutions[k].phase
              /\ nodeExecutionEvents'[k] = nodeExecutionEvents[k]
    ]_vars

C3_Witness ==
  /\ resp.op = "CreateNodeEvent"
  /\ resp.code = "FailedPrecondition"
  /\ IsNodeExecutionTerminal(nodeExecutions[<<resp.id, resp.node>>].phase)
  /\ \E id \in ExecIds : Exists(id) /\ IsExecutionTerminal(executions[id].phase)

\* C4: a request task's write of a new phase and event is based on the phase
\* that is stored when it writes: the read of the phase and the write are one
\* atomic step for the identity.
C4_AtomicTransition ==
  [][ \A p \in Procs :
        ( /\ inflight[p] # NoCall
          /\ inflight'[p] = NoCall
          /\ executionEvents'[inflight[p].id] # executionEvents[inflight[p].id] )
        => inflight[p].executionModel.phase = executions[inflight[p].id].phase
    ]_vars

\* C5 (as claimed): the recorded phase never returns to a phase it has left:
\* no phase occurs twice among the accepted events of an execution.
C5_NoPhaseRevisited ==
  \A id \in ExecIds :
    \A i, j \in 1..Len(executionEvents[id]) :
      i < j => executionEvents[id][i].phase # executionEvents[id][j].phase

\* C5 (amended): the accepted phases of an execution are non-terminal phases
\* followed by at most one terminal phase, which is then the recorded phase;
\* a non-terminal phase may be reported again after it was left.
C5_TerminalClassAbsorbing ==
  \A id \in ExecIds :
    LET n == Len(executionEvents[id]) IN
    /\ \A i \in 1..n :
         IsExecutionTerminal(executionEvents[id][i].phase) => i = n
    /\ (Exists(id) /\ n > 0) => executions[id].phase = executionEvents[id][n].phase

C5_Witness ==
  \E id \in ExecIds :
    /\ Len(executionEvents[id]) = 3
    /\ EventPhasesOf(id) = << "RUNNING", "QUEUED", "RUNNING" >>

\* C6: an event whose request id and phase are those of an event already
\* recorded for the execution is not recorded a second time.
C6_DuplicateRequestNotReapplied ==
  \A id \in ExecIds :
    \A i, j \in 1..Len(executionEvents[id]) :
      i < j => ~ ( /\ executionEvents[id][i].requestId = executionEvents[id][j].requestId
                   /\ executionEvents[id][i].phase = executionEvents[id][j].phase )

\* C7: the active-executions gauge counts each execution once from its creation
\* to its terminal transition: it equals the number of stored executions whose
\* recorded phase is not terminal, and each execution has at most one accepted
\* terminal event.
C7_ActiveGaugeBalanced ==
  /\ systemMetrics.ActiveExecutions =
       Cardinality({id \in ExecIds :
                      Exists(id) /\ ~IsExecutionTerminal(executions[id].phase)})
  /\ \A id \in ExecIds :
       Cardinality({i \in 1..Len(executionEvents[id]) :
                      IsExecutionTerminal(executionEvents[id][i].phase)}) <= 1

\* C8: a creation request whose dispatch to the workflow executor fails leaves
\* nothing behind: no execution, nothing in the content store, no change of the
\* active and created counters.
C8_FailedDispatchLeavesNothing ==
  [][ (resp'.op \in {"CreateExecution", "RelaunchExecution"}
         /\ resp'.code = "ExecutorError")
      => /\ UNCHANGED << executions, executionEvents, storage, dispatched >>
         /\ systemMetrics'.ActiveExecutions = systemMetrics.ActiveExecutions
         /\ systemMetrics'.ExecutionsCreated = systemMetrics.ExecutionsCreated
    ]_vars

\* C9: once an execution is stored for a (project, domain, name), every
\* CreateExecution or RelaunchExecution naming it fails and the stored
\* execution is unchanged.
C9_OneExecutionPerName ==
  [][ \A id \in ExecIds :
        ( /\ Exists(id)
          /\ resp'.op \in {"CreateExecution", "RelaunchExecution"}
          /\ resp'.id = id )
        => (resp'.code # "OK" /\ executions'[id] = executions[id])
    ]_vars

C9_Witness ==
  /\ resp.op = "RelaunchExecution"
  /\ resp.code = "AlreadyExists"
  /\ executions[resp.id].phase = "SUCCEEDED"
  /\ executions[resp.id].mode = "MANUAL"

\* C10: an execution is stored in phase UNDEFINED and stays there until an
\* event for it is accepted.
C10_CreatedUndefined ==
  \A id \in ExecIds :
    (Exists(id) /\ executionEvents[id] = << >>) => executions[id].phase = "UNDEFINED"

C10_Witness ==
  /\ resp.op = "CreateExecution"
  /\ resp.code = "OK"
  /\ executions[resp.id].phase = "UNDEFINED"
  /\ \E other \in ExecIds : Len(executionEvents[other]) > 0

\* ----------------------------------------------------- notification claims
\* The entries of a notification list whose phase list holds the phase.
Matching(list, phase) == {i \in 1..Len(list) : phase \in list[i].phases}

\* The matching entries that carry none of the three channels.
Untyped(list, phase) ==
  {i \in Matching(list, phase) : list[i].type \notin {"email", "pagerduty", "slack"}}

\* The entries a message is due for: the matching entries, up to the first
\* one without a channel.
Due(list, phase) ==
  {i \in Matching(list, phase) : \A u \in Untyped(list, phase) : i < u}

\* The messages the step handed to the publisher.
NewMessages == SubSeq(published', Len(published) + 1, Len(published'))

\* The step is a CreateWorkflowEvent call for id that was not rejected by the
\* phase check.
Accepted(id) ==
  /\ resp'.op = "CreateWorkflowEvent" /\ resp'.id = id
  /\ executionEvents'[id] # executionEvents[id]

\* The recipients of the messages published for an execution, in order.
RecipientsOf(id) ==
  LET mine == {i \in 1..Len(published) : published[i].id = id}
  IN [k \in 1..Cardinality(mine) |->
        published[CHOOSE i \in mine : Cardinality({j \in mine : j <= i}) = k].recipients]

\* C11: the notification list stored with an execution is the list of its
\* request when that is not empty, else empty when the request disables all
\* notifications, else the list of its launch plan (empty without one).
C11_NotificationsResolved ==
  \A id \in ExecIds :
    Exists(id) =>
      LET spec == executions[id].spec IN
      executions[id].notifications =
        CASE spec.notifications # << >> -> spec.notifications
          [] spec.notifications = << >> /\ spec.disableAll -> << >>
          [] spec.notifications = << >> /\ ~spec.disableAll /\ spec.launchPlan = "lp"
               -> LaunchPlanNotifications
          [] spec.notifications = << >> /\ ~spec.disableAll /\ spec.launchPlan = "lpUntyped"
               -> UntypedNotifications
          [] OTHER -> << >>

C11_Witness ==
  /\ Exists("e1") /\ Exists("e2")
  /\ executions["e1"].spec.notifications # << >>
  /\ executions["e1"].spec.disableAll
  /\ executions["e1"].spec.launchPlan = "lp"
  /\ executions["e1"].notifications = PagerAndEmailNotifications
  /\ executions["e2"].spec =
       [notifications |-> << >>, disableAll |-> FALSE, launchPlan |-> "lpBare"]
  /\ executions["e2"].notifications = << >>

C13_UntypedEntryIsInternal ==
  [][ \A id \in ExecIds :
        Accepted(id) =>
          LET hit == /\ IsExecutionTerminal(resp'.phase)
                     /\ Untyped(executions[id].notifications, resp'.phase) # {}
          IN /\ resp'.code = IF hit THEN "Internal" ELSE "OK"
             /\ systemMetrics'.UnexpectedDataError =
                  systemMetrics.UnexpectedDataError + (IF hit THEN 1 ELSE 0)
    ]_vars

C13_Witness ==
  /\ resp.op = "CreateWorkflowEvent" /\ resp.code = "Internal"
  /\ executions[resp.id].notifications = UntypedNotifications
  /\ executions[resp.id].phase = "SUCCEEDED"
  /\ systemMetrics.UnexpectedDataError = 1

\* C14: when Publish fails for a message, the other matching entries are still
\* handed to the publisher, the publish-error counter goes up by the number of
\* failed Publish calls, and the call succeeds.
C14_PublishFailureNotFatal ==
  [][ \A id \in ExecIds :
        ( /\ Accepted(id) /\ IsExecutionTerminal(resp'.phase)
          /\ Untyped(executions[id].notifications, resp'.phase) = {} )
        => /\ resp'.code = "OK"
           /\ Len(NewMessages) =
                Cardinality(Matching(executions[id].notifications, resp'.phase))
           /\ systemMetrics'.PublishNotificationError =
                systemMetrics.PublishNotificationError
                  + Cardinality({k \in 1..Len(NewMessages) : ~NewMessages[k].ok})
           /\ systemMetrics'.ExecutionEventsCreated =
                systemMetrics.ExecutionEventsCreated + 1
    ]_vars

C14_Witness ==
  /\ resp.op = "CreateWorkflowEvent" /\ resp.code = "OK"
  /\ Len(published) = 2
  /\ published[1].id = resp.id /\ ~published[1].ok
  /\ published[2].id = resp.id /\ published[2].ok
  /\ systemMetrics.PublishNotificationError = 1

C16_AbortCauseAfterAbort ==
  [][ \A id \in ExecIds :
        (resp'.op = "TerminateExecution" /\ resp'.id = id) =>
          /\ executions'[id] # executions[id] =>
               (id \in aborted' /\ resp'.code = "OK")
          /\ resp'.code \in {"NotFound", "ExecutorError"} =>
               UNCHANGED << data >>
          /\ resp'.code = "OK" =>
               (id \in aborted' /\ executions'[id].abortCause \in Causes)
    ]_vars

C16_Witness ==
  /\ resp.op = "TerminateExecution" /\ resp.code = "ExecutorError"
  /\ executions[resp.id].phase = "RUNNING"
  /\ executions[resp.id].abortCause = NoCause
  /\ \E other \in ExecIds : other \in aborted /\ executions[other].abortCause = "c1"

\* C17: once the recorded phase of an execution is terminal, no call changes
\* any field of the stored execution.
C17_TerminalImmutable ==
  [][ \A id \in ExecIds :
        (Exists(id) /\ IsExecutionTerminal(executions[id].phase))
        => executions'[id] = executions[id]
    ]_vars

\* C18: GetExecution, GetExecutionData and ListExecutions change neither the
\* repository nor the content store.
C18_ReadsChangeNothing ==
  [][ resp'.op \in {"GetExecution", "GetExecutionData", "ListExecutions"}
      => UNCHANGED << executions, executionEvents, nodeExecutions,
                      nodeExecutionEvents, storage >>
    ]_vars

\* ------------------------------------------------- node execution claims
\* C19: an accepted CreateNodeEvent for a pair without a node execution stores
\* the node execution with its first event; an accepted one for a stored pair
\* changes the phase of that node execution and adds an event to it; no other
\* pair is touched, and each stored node execution was created once.
C19_OneNodeExecutionPerPair ==
  [][ \A k \in NodeKeys :
        ( /\ resp'.op = "CreateNodeEvent" /\ resp'.code = "OK"
          /\ resp'.id = k[1] /\ resp'.node = k[2] )
        => /\ IF NodeExists(k)
                THEN /\ nodeExecutions'[k] =
                          [nodeExecutions[k] EXCEPT !.phase = resp'.phase]
                     /\ nodeExecutions[k].phase # resp'.phase
                     /\ Len(nodeExecutionEvents'[k]) = Len(nodeExecutionEvents[k]) + 1
                     /\ SubSeq(nodeExecutionEvents'[k], 1, Len(nodeExecutionEvents[k]))
                          = nodeExecutionEvents[k]
                ELSE /\ nodeExecutions'[k].phase = resp'.phase
                     /\ Len(nodeExecutionEvents'[k]) = 1
           /\ nodeExecutionEvents'[k][Len(nodeExecutionEvents'[k])].phase = resp'.phase
           /\ \A other \in NodeKeys \ {k} :
                /\ nodeExecutions'[other] = nodeExecutions[other]
                /\ nodeExecutionEvents'[other] = nodeExecutionEvents[other]
           /\ metrics'.NodeExecutionsCreated =
                Cardinality({x \in NodeKeys : nodeExecutions'[x] # NoNodeExecution})
    ]_vars

C19_Witness ==
  /\ resp.op = "CreateNodeEvent" /\ resp.code = "OK"
  /\ resp.curPhase = "RUNNING" /\ resp.phase = "SUCCEEDED"
  /\ nodeExecutions[<<resp.id, resp.node>>].phase = "SUCCEEDED"
  /\ nodeExecutions[<<resp.id, resp.node>>].parentTaskExecutionID = "t1"
  /\ Len(nodeExecutionEvents[<<resp.id, resp.node>>]) = 2
  /\ metrics.NodeExecutionsCreated = 1

\* C20: a CreateNodeEvent that names a workflow execution that is not stored
\* fails with the NotFound of the lookup, increments the
\* missing-workflow-execution counter, and writes no node execution and no
\* node execution event.
C20_MissingWorkflowExecution ==
  [][ \A id \in ExecIds :
        (resp'.op = "CreateNodeEvent" /\ resp'.id = id /\ ~Exists(id))
        => /\ resp'.code = "NotFound"
           /\ metrics'.MissingWorkflowExecution = metrics.MissingWorkflowExecution + 1
           /\ UNCHANGED << executions, executionEvents, nodeExecutions,
                           nodeExecutionEvents >>
    ]_vars

C20_Witness ==
  /\ resp.op = "CreateNodeEvent" /\ resp.code = "NotFound"
  /\ ~Exists(resp.id)
  /\ metrics.MissingWorkflowExecution = 1
  /\ nodeExecutions[<<resp.id, resp.node>>] = NoNodeExecution
  /\ \E k \in NodeKeys : NodeExists(k)

\* C21: an accepted node event that names a parent task execution names one
\* that is stored; a rejected node event writes nothing.
C21_ParentTaskExists ==
  [][ resp'.op = "CreateNodeEvent" =>
        /\ (resp'.code = "OK" /\ resp'.detail.parentTask # NoTask)
             => resp'.detail.parentTask \in TaskExecutions
        /\ resp'.code # "OK"
             => UNCHANGED << nodeExecutions, nodeExecutionEvents >>
    ]_vars

\* C22: an accepted node event that names a child workflow execution names a
\* valid identifier of a stored execution; a rejected node event writes
\* nothing.
C22_ChildExecutionExists ==
  [][ resp'.op = "CreateNodeEvent" =>
        /\ (resp'.code = "OK" /\ resp'.detail.child # NoChild)
             => /\ resp'.detail.child \in ExecIds
                /\ Exists(resp'.detail.child)
        /\ resp'.code # "OK"
             => UNCHANGED << nodeExecutions, nodeExecutionEvents >>
    ]_vars

\* C23: a node event for a stored workflow execution creates the node execution
\* when the pair is new, updates it when the stored phase is not terminal and
\* differs from the reported one, and is rejected with the
\* already-in-terminal-state error when the stored phase is terminal and
\* differs; the rejection writes nothing and changes no counter.
C23_NodeEventOutcomes ==
  [][ \A k \in NodeKeys :
        ( /\ resp'.op = "CreateNodeEvent" /\ resp'.id = k[1] /\ resp'.node = k[2]
          /\ Exists(k[1]) )
        => IF ~NodeExists(k) THEN
             resp'.code = "OK" => nodeExecutions'[k].phase = resp'.phase
           ELSE IF nodeExecutions[k].phase = resp'.phase THEN
             resp'.code = "AlreadyExists"
           ELSE IF IsNodeExecutionTerminal(nodeExecutions[k].phase) THEN
             /\ resp'.code = "FailedPrecondition"
             /\ UNCHANGED data
           ELSE
             /\ resp'.code \in {"OK", "NotFound"}
             /\ resp'.code = "OK" => nodeExecutions'[k].phase = resp'.phase
    ]_vars

C23_Witness ==
  /\ resp.op = "CreateNodeEvent" /\ resp.code = "FailedPrecondition"
  /\ resp.curPhase = "FAILED" /\ resp.phase = "RUNNING"
  /\ nodeExecutions[<<resp.id, resp.node>>].phase = "FAILED"
  /\ Len(nodeExecutionEvents[<<resp.id, resp.node>>]) = 2
  /\ metrics.NodeExecutionsTerminated = 1
  /\ metrics.NodeExecutionEventsCreated = 2

\* C24: the active-node-executions gauge is never below its initial value and
\* is back at it when every stored node execution is terminal.
C24_ActiveNodeGaugeBalanced ==
  /\ metrics.ActiveNodeExecutions >= 0
  /\ (\A k \in NodeKeys :
        NodeExists(k) => IsNodeExecutionTerminal(nodeExecutions[k].phase))
     => metrics.ActiveNodeExecutions = 0

\* ------------------------------------------------------------ list claims
ListCalls ==
  {"ListExecutions", "ListNodeExecutions", "ListNodeExecutionsForTask",
   "ListTasks", "ListUniqueTaskIdentifiers"}

\* The rows the repository holds for the list call that was answered.
ListedRows ==
  CASE resp.op = "ListExecutions" -> ExecutionRows
    [] resp.op = "ListNodeExecutions" -> NodeRows(resp.id, NoTask, TRUE)
    [] resp.op = "ListNodeExecutionsForTask" -> NodeRows(resp.id, resp.detail.task, FALSE)
    [] resp.op = "ListTasks" -> TaskRows
    [] resp.op = "ListUniqueTaskIdentifiers" -> TaskIdentifierRows

\* C25: a list call answers with a token exactly when it returns as many
\* results as the limit of the request; the token then reads as the offset of
\* the request plus the number of results, and the results are the rows from
\* the offset of the request on, so a call with that token goes on where this
\* one ended.
C25_TokenWhenPageIsFull ==
  (resp.op \in ListCalls /\ resp.code = "OK") =>
    LET d == resp.detail
        n == Len(d.results)
    IN /\ (d.token # "") <=> (n = d.limit)
       /\ d.token # "" => ValidateToken(d.token) = d.offset + n
       /\ n <= d.limit
       /\ \A i \in 1..n : d.results[i] = ListedRows[d.offset + i]
       /\ n < d.limit => d.offset + n >= Len(ListedRows)

C25_Witness ==
  /\ resp.op = "ListTasks" /\ resp.code = "OK"
  /\ resp.detail.limit = 1 /\ resp.detail.offset = 1
  /\ Len(tasks) = 2
  /\ resp.detail.results = << << tasks[2].name, tasks[2].version >> >>
  /\ resp.detail.token = "2"

\* C26: ListNodeExecutions returns only node executions of the workflow
\* execution that have no parent task execution; ListNodeExecutionsForTask
\* fails when the task execution is not stored and otherwise returns only
\* node executions whose parent is that task execution.
C26_RootNodeFilter ==
  /\ (resp.op = "ListNodeExecutions" /\ resp.code = "OK") =>
       \A i \in 1..Len(resp.detail.results) :
         LET k == resp.detail.results[i] IN
         /\ k[1] = resp.id
         /\ nodeExecutions[k].parentTaskExecutionID = NoTask
  /\ resp.op = "ListNodeExecutionsForTask" =>
       /\ resp.detail.task \notin TaskExecutions
            <=> (resp.code = "NotFound" /\ resp.detail.results = << >>)
       /\ \A i \in 1..Len(resp.detail.results) :
            LET k == resp.detail.results[i] IN
            /\ k[1] = resp.id
            /\ nodeExecutions[k].parentTaskExecutionID = resp.detail.task

C26_Witness ==
  /\ resp.op = "ListNodeExecutions" /\ resp.code = "OK"
  /\ resp.detail.offset = 0 /\ resp.detail.results = << >>
  /\ NodeExists(<<resp.id, "n1">>)
  /\ nodeExecutions[<<resp.id, "n1">>].parentTaskExecutionID = "t1"
  /\ \E other \in ExecIds :
       /\ NodeExists(<<other, "n1">>)
       /\ nodeExecutions[<<other, "n1">>].parentTaskExecutionID = NoTask

\* ------------------------------------------------------- processor claims
\* C27: every message the Processor received has been marked Done exactly
\* once, except the one in hand, which has not been marked yet and is the
\* last one received; and the message in hand is always marked Done in the
\* end, whatever its content and whatever SendEmail and Done answer.
C27_AcknowledgedOnce ==
  /\ [](LET n == Len(processor.handled) IN
        /\ processor.MessageTotal = n
        /\ (processor.current # NoMessage) <=> (processor.pc \in {"decode", "markDone"})
        /\ processor.current # NoMessage =>
             n > 0 /\ processor.handled[n].kind = processor.current.kind
        /\ \A i \in 1..n :
             processor.handled[i].done =
               IF i = n /\ processor.current # NoMessage THEN 0 ELSE 1)
  /\ (processor.current # NoMessage) ~> (processor.current = NoMessage)

C27_Witness ==
  /\ processor.pc = "range"
  /\ Len(processor.handled) = 2
  /\ processor.handled[1] = [kind |-> "badJSON", sends |-> 0, done |-> 1]
  /\ processor.handled[2] = [kind |-> "ok", sends |-> 1, done |-> 1]
  /\ processor.MessageProcessorError = 1
  /\ processor.MessageDoneError = 1

\* C28: SendEmail has been called once for every received message whose four
\* decoding stages succeeded and that is past them, and never for any other
\* message; every call is counted as a success or as a processor error.
C28_SentOnceWhenDecoded ==
  LET n == Len(processor.handled)
      Sends[i \in 0..n] == IF i = 0 THEN 0 ELSE Sends[i - 1] + processor.handled[i].sends
  IN /\ \A i \in 1..n :
          processor.handled[i].sends =
            IF /\ processor.handled[i].kind = "ok"
               /\ ~(i = n /\ processor.pc = "decode")
            THEN 1 ELSE 0
     /\ processor.MessageSuccess + processor.MessageProcessorError = Sends[n]

C28_Witness ==
  /\ processor.pc = "range"
  /\ processor.handled =
       << [kind |-> "ok", sends |-> 1, done |-> 1],
          [kind |-> "badProto", sends |-> 0, done |-> 1] >>
  /\ processor.MessageProcessorError = 1
  /\ processor.MessageSuccess = 0
  /\ processor.MessageDecodingError = 1

\* C29: StartProcessing has returned only if the channel is closed and no
\* message is in hand; what it returned is the error of the subscription,
\* and ChannelClosedError counts that return exactly when the error is not
\* nil; and once the channel is closed StartProcessing returns in the end.
C29_ReturnsOnClose ==
  /\ [](/\ processor.pc = "returned" =>
            /\ processor.closed
            /\ processor.current = NoMessage
            /\ processor.returned = processor.err
            /\ processor.ChannelClosedError = IF processor.err = "nil" THEN 0 ELSE 1
        /\ processor.pc # "returned" =>
            /\ processor.returned = "-"
            /\ processor.ChannelClosedError = 0)
  /\ processor.closed ~> (processor.pc = "returned")

C29_Witness ==
  /\ processor.pc = "returned"
  /\ processor.returned = "nil"
  /\ processor.ChannelClosedError = 0
  /\ processor.MessageDecodingError = 1
  /\ processor.MessageProcessorError = 1
  /\ processor.MessageDoneError = 1

C32_RelaunchFromSource ==
  [][ resp'.op = "RelaunchExecution" =>
        LET sourceId == resp'.detail.source
            name == resp'.id
            source == executions[sourceId]
        IN /\ source = NoExecution =>
                /\ resp'.code = "NotFound"
                /\ executions' = executions
                /\ storage' = storage
                /\ dispatched' = dispatched
           /\ source # NoExecution => executions'[sourceId] = source
           /\ \A id \in ExecIds \ {name} : executions'[id] = executions[id]
           /\ resp'.code # "OK" => executions' = executions
           /\ resp'.code = "OK" =>
                /\ executions[name] = NoExecution
                /\ executions'[name].mode = "RELAUNCH"
                /\ executions'[name].source = sourceId
                /\ executions'[name].spec = source.spec
                /\ executions'[name].phase = "UNDEFINED"
                /\ resp'.detail.inputs =
                     IF source.userInputsURI # "" THEN source.userInputsURI ELSE "spec"
                /\ source.userInputsURI # "" =>
                     << sourceId, source.userInputsURI >> \in storage
    ]_vars

C32_Witness ==
  /\ resp.op = "RelaunchExecution" /\ resp.code = "OK"
  /\ resp.detail = [source |-> "e1", inputs |-> "spec"]
  /\ resp.id = "e2"
  /\ executions["e2"].mode = "RELAUNCH"
  /\ executions["e2"].source = "e1"
  /\ executions["e2"].userInputsURI = "user-inputs"
  /\ executions["e1"].inputsURI = "inputs"
  /\ executions["e1"].userInputsURI = ""
  /\ executions["e1"].mode = "MANUAL"

C34_EventOnlyWhenCallSucceeds ==
  [][ resp'.op = "CreateWorkflowEvent" =>
        LET id == resp'.id IN
        /\ \A other \in ExecIds \ {id} : executionEvents'[other] = executionEvents[other]
        /\ resp'.code = "OK" =>
             /\ Len(executionEvents'[id]) = Len(executionEvents[id]) + 1
             /\ SubSeq(executionEvents'[id], 1, Len(executionEvents[id])) = executionEvents[id]
             /\ executionEvents'[id][Len(executionEvents'[id])].phase = resp'.phase
             /\ executions'[id].phase = resp'.phase
        /\ resp'.code # "OK" => executionEvents' = executionEvents
    ]_vars

\* C34 (amended): a CreateWorkflowEvent call that succeeds, or that fails in
\* publishNotifications, has stored the reported phase and appended one event
\* for it after the events there were; a call that is rejected appends none
\* and stores nothing; so the events stored are as many as the calls counted
\* as created plus the calls that failed in publishNotifications.
C34_EventPerStoredTransition ==
  /\ [][ resp'.op = "CreateWorkflowEvent" =>
          LET id == resp'.id IN
          /\ \A other \in ExecIds \ {id} : executionEvents'[other] = executionEvents[other]
          /\ resp'.code \in {"OK", "Internal"} =>
               /\ Len(executionEvents'[id]) = Len(executionEvents[id]) + 1
               /\ SubSeq(executionEvents'[id], 1, Len(executionEvents[id])) = executionEvents[id]
               /\ executionEvents'[id][Len(executionEvents'[id])].phase = resp'.phase
               /\ executions'[id].phase = resp'.phase
          /\ resp'.code \notin {"OK", "Internal"} =>
               /\ executionEvents' = executionEvents
               /\ executions' = executions
      ]_vars
  /\ [](Rows(executionEvents, ExecIds) =
          systemMetrics.ExecutionEventsCreated + systemMetrics.UnexpectedDataError)

C34_Witness ==
  /\ resp.op = "CreateWorkflowEvent" /\ resp.code = "Internal"
  /\ Len(executionEvents[resp.id]) = 2
  /\ executionEvents[resp.id][2].phase = resp.phase
  /\ executions[resp.id].phase = resp.phase
  /\ systemMetrics.UnexpectedDataError = 1
  /\ Rows(executionEvents, ExecIds) = systemMetrics.ExecutionEventsCreated + 1

\* C35: the emitters run detached from the call. A step of an emitter
\* goroutine (it starts, succeeds, returns early, loses the stopwatch, or the
\* runtime ends it) changes neither the answer of the last call nor anything
\* the repository, the store or the counters hold; a CreateWorkflowEvent call
\* answers and stores without waiting for an emitter it started or that
\* still runs. The emitter of the scheduled delay is started only by a call
\* that stored a RUNNING event of an execution of mode SCHEDULED, the emitter
\* of the duration only by a call that stored a terminal event.
EmittersMoved ==
  \/ userMetrics'.goroutines # userMetrics.goroutines
  \/ userMetrics'.faults # userMetrics.faults
  \/ \E kind \in MetricKinds :
       userMetrics'.pending[kind] < userMetrics.pending[kind]

Started(kind) == userMetrics'.pending[kind] > userMetrics.pending[kind]

StoredEvent ==
  /\ resp'.op = "CreateWorkflowEvent"
  /\ Len(executionEvents'[resp'.id]) = Len(executionEvents[resp'.id]) + 1

C35_EmittersDetached ==
  [][/\ EmittersMoved => UNCHANGED << data, resp >>
     /\ Started("ScheduledExecutionDelays") =>
          /\ StoredEvent
          /\ resp'.phase = "RUNNING"
          /\ executions[resp'.id].mode = "SCHEDULED"
     /\ Started("WorkflowExecutionDurations") =>
          /\ StoredEvent
          /\ IsExecutionTerminal(resp'.phase)
     /\ (StoredEvent /\ resp'.phase = "RUNNING"
           /\ executions[resp'.id].mode = "SCHEDULED") =>
          Started("ScheduledExecutionDelays")
     /\ (StoredEvent /\ IsExecutionTerminal(resp'.phase)) =>
          Started("WorkflowExecutionDurations")]_vars

\* A call answered OK with its emitter not yet run, after one emitter
\* observed and one returned early.
C35_Witness ==
  /\ resp.op = "CreateWorkflowEvent"
  /\ resp.code = "OK"
  /\ \E kind \in MetricKinds : userMetrics.pending[kind] > 0
  /\ \E kind \in MetricKinds : userMetrics.observed[kind] > 0
  /\ \E kind \in MetricKinds : userMetrics.returned[kind] > 0

\* C36: a race of two emitters on the first use of a project and domain
\* loses at most one observation and leaves a usable stopwatch: once the
\* emitters of a metric are done, a stopwatch the scope has registered is
\* the one the domain map stored under the project holds, so that the next
\* emitter observes on it.
C36_UsableStopwatchAfterRace ==
  \A kind \in MetricKinds :
    /\ userMetrics.dropped[kind] <= 1
    /\ (/\ userMetrics.registered[kind]
        /\ \A g \in Goroutines :
             Running(g) # NoGoroutine => Running(g).kind # kind) =>
         /\ userMetrics.projects[kind] # 0
         /\ userMetrics.domainMaps[userMetrics.projects[kind]]

\* C37: a CreateWorkflowEvent call that fails in publishNotifications has
\* stored the terminal phase and its event, decremented the active gauge and
\* incremented the terminated counter, and left only the events-created
\* counter alone; the same event sent again is answered AlreadyExists and
\* changes nothing, no message is handed to the publisher.
C37_PipelineErrorKeepsState ==
  [][ \A id \in ExecIds :
        /\ (Accepted(id) /\ resp'.code = "Internal") =>
             /\ IsExecutionTerminal(resp'.phase)
             /\ executions'[id].phase = resp'.phase
             /\ Len(executionEvents'[id]) = Len(executionEvents[id]) + 1
             /\ systemMetrics'.ActiveExecutions =
                  systemMetrics.ActiveExecutions - 1
             /\ systemMetrics'.ExecutionsTerminated =
                  systemMetrics.ExecutionsTerminated + 1
             /\ systemMetrics'.ExecutionEventsCreated =
                  systemMetrics.ExecutionEventsCreated
        /\ ( /\ resp.op = "CreateWorkflowEvent" /\ resp.code = "Internal"
             /\ resp.id = id
             /\ resp'.op = "CreateWorkflowEvent" /\ resp'.id = id
             /\ resp'.phase = resp.phase ) =>
             (resp'.code = "AlreadyExists" /\ UNCHANGED data)
    ]_vars

\* The failed call was sent again and answered AlreadyExists.
C37_Witness ==
  /\ resp.op = "CreateWorkflowEvent" /\ resp.code = "AlreadyExists"
  /\ IsExecutionTerminal(resp.phase)
  /\ executions[resp.id].notifications = UntypedNotifications
  /\ Len(executionEvents[resp.id]) = 1
  /\ systemMetrics.UnexpectedDataError = 1
  /\ systemMetrics.ExecutionsTerminated = 1
  /\ systemMetrics.ExecutionEventsCreated = 0

\* C38: with calls served one after the other, publishNotifications runs at
\* most once for an execution: a step hands messages to the publisher or
\* counts a notification error only if it stored a terminal event, the
\* execution's stored phase is then that phase, the messages are all for that
\* execution and phase and none was handed over for it before; an execution
\* never has two stored terminal events.
PipelineRan ==
  \/ published' # published
  \/ systemMetrics'.UnexpectedDataError # systemMetrics.UnexpectedDataError
  \/ systemMetrics'.PublishNotificationError #
       systemMetrics.PublishNotificationError

TerminalEvents(id) ==
  {k \in 1..Len(executionEvents[id]) :
     IsExecutionTerminal(executionEvents[id][k].phase)}

C38_PipelineAtMostOnce ==
  /\ [][ PipelineRan =>
           /\ Accepted(resp'.id)
           /\ IsExecutionTerminal(resp'.phase)
           /\ executions'[resp'.id].phase = resp'.phase
           /\ TerminalEvents(resp'.id) = {}
           /\ \A k \in 1..Len(published) : published[k].id # resp'.id
           /\ \A k \in 1..Len(NewMessages) :
                /\ NewMessages[k].id = resp'.id
                /\ NewMessages[k].phase = resp'.phase
       ]_vars
  /\ [](\A id \in ExecIds : Cardinality(TerminalEvents(id)) <= 1)

\* Messages were handed over for an execution, and later calls for it, one
\* with another terminal phase, were rejected.
C38_Witness ==
  /\ resp.op = "CreateWorkflowEvent"
  /\ resp.code = "FailedPrecondition"
  /\ IsExecutionTerminal(resp.phase)
  /\ Len(executionEvents[resp.id]) = 2
  /\ Cardinality(TerminalEvents(resp.id)) = 1
  /\ \E k \in 1..Len(published) : published[k].id = resp.id

\* C39: TerminateExecution changes only the abort cause of an execution, also
\* when a CreateWorkflowEvent call for the same execution is served between
\* its read and its write: the step that answers a TerminateExecution call
\* leaves every stored model as it was but for the abort cause.
C39_TerminateKeepsPhase ==
  [][ resp'.op = "TerminateExecution" =>
        \A id \in ExecIds :
          \/ executions'[id] = executions[id]
          \/ /\ Exists(id)
             /\ executions'[id] =
                  [executions[id] EXCEPT !.abortCause = executions'[id].abortCause]
    ]_vars

\* C40: a registered task is never overwritten. A CreateTask call for an
\* identifier that is stored fails and writes nothing, with AlreadyExists
\* only for the stored digest and never for another one; the stored tasks
\* change only by one model appended by a call answered OK for an identifier
\* that was not stored; stored models keep their place and content, and no
\* identifier is stored twice.
C40_RegisteredTaskKept ==
  /\ [][ /\ resp'.op = "CreateTask" =>
              LET existing == TaskModels(resp'.id, resp'.detail.version) IN
              /\ existing # {} =>
                   /\ tasks' = tasks
                   /\ resp'.code \in {"AlreadyExists", "InvalidArgument",
                                      "CompilerError"}
                   /\ resp'.code = "AlreadyExists" =>
                        \A i \in existing : tasks[i].digest = resp'.detail.digest
              /\ resp'.code = "OK" =>
                   /\ existing = {}
                   /\ tasks' = Append(tasks, [name |-> resp'.id,
                                             version |-> resp'.detail.version,
                                             digest |-> resp'.detail.digest])
         /\ tasks' # tasks => (resp'.op = "CreateTask" /\ resp'.code = "OK")
         /\ \A i \in 1..Len(tasks) : Len(tasks') >= i /\ tasks'[i] = tasks[i]
       ]_vars
  /\ [](\A i, j \in 1..Len(tasks) :
          (tasks[i].name = tasks[j].name /\ tasks[i].version = tasks[j].version)
            => i = j)

\* A stored task was registered again with another digest and the call was
\* answered InvalidArgument.
C40_Witness ==
  /\ resp.op = "CreateTask"
  /\ resp.code = "InvalidArgument"
  /\ \E i \in TaskModels(resp.id, resp.detail.version) :
       tasks[i].digest # resp.detail.digest
  /\ Len(tasks) = 2
====
